---- MODULE Spec2Model ----
(***************************************************************************)
(* The auto-claim scheduler of src/bot.py as a state machine.              *)
(*                                                                         *)
(* The program is one asyncio event loop.  A coroutine runs without        *)
(* interruption from one suspension to the next; it suspends only where it *)
(* awaits network I/O (a Telegram send, a request to the rewards API) or   *)
(* asyncio.sleep.  load_user_data / save_user_data / load_claim_history /  *)
(* save_claim_history take the per-user asyncio.Lock around synchronous    *)
(* file I/O only, so the lock is never held across a suspension, is never  *)
(* contended, and those four calls do not suspend.  Every action below is  *)
(* therefore the code between two suspensions.                             *)
(***************************************************************************)
EXTENDS Integers, Sequences, FiniteSets, TLC

(***************************************************************************)
(* Bounds of the model.                                                    *)
(***************************************************************************)
MaxTasks == 2       \* asyncio tasks created in one run
MaxCalls == 2       \* handler invocations dispatched in one run
MaxIter == 2        \* iterations one scheduler loop begins in one run
MaxHist == 1        \* history entries appended per user in one run
\* The same three bounds in the runs that follow the history, and in the runs
\* with two users.
MaxCallsHistory == 1
MaxIterHistory == 2
MaxHistHistory == 2
MaxCallsUsers == 1
MaxIterUsers == 2
MaxIterSecond == 0  \* iterations the loop of the second user begins
MaxHistUsers == 1
\* The runs that display a stored history.
MaxStored == 11        \* entries in the history file at boot
MaxCallsDisplay == 1
\* The runs in which a user's record file is lost.
MaxCallsFaults == 1
MaxIterFaults == 2
MaxHistFaults == 1
\* The runs with a clean shutdown and a second boot, of two users.
MaxCallsRestart == 1
MaxIterRestart == 2
MaxHistRestart == 1
\* The runs that follow the per-user locks.
MaxCallsLocks == 2
MaxHistLocks == 1

Users == {"u1", "u2"}
Tokens == {"ey1", "ey2"}
NoToken == "none"
Absent == "absent"
Tiers == {"silver", "gold", "diamond"}

TaskIds == 1..MaxTasks
NoTask == 0

(***************************************************************************)
(* Balance snapshots the rewards service may report (GET /token/get-token).*)
(* The two differ upward in one tier, downward in another, and not at all  *)
(* in the third.                                                           *)
(***************************************************************************)
BalLow == [silver |-> 1, gold |-> 1, diamond |-> 1]
BalMix == [silver |-> 2, gold |-> 1, diamond |-> 0]
Balances == {BalLow, BalMix}
NoBal == [silver |-> 0, gold |-> 0, diamond |-> 0]

(***************************************************************************)
(* HTTP exchanges.  A raw outcome is a transport failure or a response     *)
(* with a status and a body; a body is empty, not JSON, or a JSON object   *)
(* of which the model keeps the keys the code reads: data and message.     *)
(* The value under data is tagged by its JSON shape.                       *)
(***************************************************************************)
TooEarly == "TOKEN_CLAIM_TOO_EARLY"
EmptyMsg == "Respons kosong dari server."
ServerMsg == "message"

DAbsent == [k |-> "absent"]                  \* no "data" key, or None
DBool(b) == [k |-> "bool", v |-> b]          \* "data": true / false
DBal(b) == [k |-> "bal", v |-> b]            \* "data": {interlink...Amount}
DProfile == [k |-> "profile"]               \* "data": {username, email}
DElig(c, nf, rem) == [k |-> "elig", isClaimable |-> c, nextFrame |-> nf, rem |-> rem]

Json(data, message) == [kind |-> "json", data |-> data, message |-> message]
EmptyBody == [kind |-> "empty", data |-> DAbsent, message |-> Absent]
TextBody == [kind |-> "text", data |-> DAbsent, message |-> Absent]

Response(status, body) == [t |-> "response", status |-> status, body |-> body]
Timeout == [t |-> "timeout", status |-> 0, body |-> EmptyBody]
ConnectError == [t |-> "connect", status |-> 0, body |-> EmptyBody]

NoStatus == 0   \* the status code None of make_api_request

\* A dict as the code sees it: the keys data, message, error_message.
Dict(data, message, err) == [data |-> data, message |-> message, error_message |-> err]
Truthy(d) == d.data.k # "absent" \/ d.message # Absent \/ d.error_message # Absent
\* A payload is falsy when it is None.
Falsy(payload) == payload.k = "absent"

(***************************************************************************)
(* make_api_request: the (dict, status) pair for a raw outcome.            *)
(***************************************************************************)
make_api_request(r) ==
    IF r.t = "timeout" THEN <<Dict(DAbsent, Absent, "timeout"), NoStatus>>
    ELSE IF r.t = "connect" THEN <<Dict(DAbsent, Absent, "connect"), NoStatus>>
    ELSE IF r.status >= 400
         THEN IF r.body.kind = "json"
              THEN <<Dict(r.body.data, r.body.message, Absent), r.status>>
              ELSE <<Dict(DAbsent, Absent, "http"), r.status>>
    ELSE IF r.body.kind = "empty"
         THEN <<Dict(DAbsent, EmptyMsg, Absent), r.status>>
    ELSE IF r.body.kind = "json"
         THEN <<Dict(r.body.data, r.body.message, Absent), r.status>>
    ELSE <<Dict(DAbsent, Absent, "notjson"), r.status>>

\* api_get_token_info: the payload data["data"], or None.
api_get_token_info(r) ==
    LET res == make_api_request(r)
        d == res[1]
    IN  IF Truthy(d) /\ res[2] = 200 /\ d.data.k # "absent" THEN d.data ELSE DAbsent

\* api_get_user_profile: the payload data["data"], or None.
api_get_user_profile(r) ==
    LET res == make_api_request(r)
        d == res[1]
    IN  IF Truthy(d) /\ res[2] = 200 /\ d.data.k # "absent" THEN d.data ELSE DAbsent

\* api_check_claimable: (payload or None, status).
api_check_claimable(r) ==
    LET res == make_api_request(r)
        d == res[1]
    IN  IF Truthy(d) /\ res[2] = 200 /\ d.data.k # "absent"
        THEN <<d.data, res[2]>>
        ELSE <<DAbsent, res[2]>>

\* api_claim_airdrop: (payload, status); the payload is the dict itself.
api_claim_airdrop(r) ==
    LET res == make_api_request(r)
    IN  <<res[1], res[2]>>

(***************************************************************************)
(* What the rewards service may answer, per endpoint.                      *)
(***************************************************************************)
HOUR_MS == 3600000
QUARTER_MS == 900000
\* nextFrame - now, in milliseconds, when the loop reads the clock.
Remaining == {-5000, 500000, QUARTER_MS, QUARTER_MS + 1000, HOUR_MS, HOUR_MS + 1000}

Failures ==
    { Response(401, Json(DAbsent, ServerMsg)), Response(429, TextBody),
      Response(500, Json(DAbsent, ServerMsg)), Timeout, ConnectError,
      Response(200, TextBody) }

CheckResponses ==
    { Response(200, Json(DElig(TRUE, "zero", 0), Absent)),
      Response(200, Json(DElig(FALSE, "zero", 0), Absent)),
      Response(200, Json(DElig(FALSE, "null", 0), Absent)),
      Response(200, Json(DAbsent, ServerMsg)) }
    \cup { Response(200, Json(DElig(FALSE, "set", rem), Absent)) : rem \in Remaining }
    \cup Failures

ClaimResponses ==
    { Response(200, Json(DBool(TRUE), Absent)),
      Response(200, Json(DBool(FALSE), Absent)),
      Response(200, EmptyBody),
      Response(400, Json(DAbsent, TooEarly)) }
    \cup Failures

TokenResponses ==
    { Response(200, Json(DBal(b), Absent)) : b \in Balances } \cup Failures

ProfileResponses == { Response(200, Json(DProfile, Absent)) } \cup Failures

(***************************************************************************)
(* The history entry both claim paths build (bot.py 485-521, 641-677).     *)
(***************************************************************************)
\* A test of the type of "data" that forgets its value.
claim_successful_any_bool(payload) ==
    Truthy(payload) /\ payload.data.k = "bool"

\* bot.py 641-643 (and 485-487)
claim_successful(payload) ==
    Truthy(payload) /\ payload.data.k = "bool" /\ payload.data.v

history_entry(before, payload, after) ==
    LET ok == claim_successful(payload)
        got == ok /\ ~Falsy(after)
    IN  [ success |-> ok,
          claimed |-> [x \in Tiers |-> IF got THEN after.v[x] - before[x] ELSE 0],
          total_after |-> [x \in Tiers |-> IF ~Falsy(after) THEN after.v[x] ELSE before[x]] ]

(***************************************************************************)
(* State.                                                                  *)
(***************************************************************************)
VARIABLES
    user_data,          \* USER_DATA_DIR: the persisted record of each user
    claim_history,      \* CLAIM_HISTORY_DIR: the persisted history of each user
    AUTO_CLAIM_TASKS,   \* registry: user -> task (NoTask: no key)
    LAST_LONG_WAIT_NOTIFICATION,  \* user -> whether the key is set
    tasks,              \* the asyncio tasks running auto_claim_task_function
    handler,            \* the handler coroutine in progress, if any
    calls,              \* handler invocations dispatched so far
    booted,             \* post_init has run
    world,              \* the run's environment: the users with a record, and how
                        \* many commands, loop iterations and history entries it has
    USER_LOCKS          \* user -> the coroutine inside the user's lock (Unlocked: none)

vars == <<user_data, claim_history, AUTO_CLAIM_TASKS, LAST_LONG_WAIT_NOTIFICATION,
          tasks, handler, calls, booted, world, USER_LOCKS>>

UserData(tok, active) == [auth_token |-> tok, auto_claim_active |-> active]
\* load_user_data of a user without a file returns {}.
NoRecord == UserData(NoToken, FALSE)

FreeTask ==
    [ st |-> "free", user |-> "none", pc |-> "none", user_data |-> NoRecord,
      tok |-> NoToken, before |-> NoBal, code |-> NoStatus, sleep |-> "none",
      iter |-> 0, notes |-> 0, submits |-> 0, seen |-> {}, waited |-> FALSE,
      entered |-> FALSE, exit |-> "none" ]

IdleHandler ==
    [ op |-> "idle", user |-> "none", pc |-> "none", arg |-> NoToken,
      task |-> NoTask, tok |-> NoToken, before |-> NoBal, code |-> NoStatus,
      reply |-> "none", shown |-> <<>> ]

\* asyncio.Lock.locked() is false.
Unlocked == 0
\* The coroutines: the scheduler loops and the handler in progress.
HandlerId == MaxTasks + 1
Coroutines == TaskIds \cup {HandlerId}

\* asyncio.Task.done()
done(t) == tasks[t].st \in {"finished", "cancelled"}
\* A test that takes no task for a running one.
task_running_never(u) == FALSE
\* "task and not task.done()" for the registry entry of u
task_running(u) == AUTO_CLAIM_TASKS[u] # NoTask /\ ~done(AUTO_CLAIM_TASKS[u])
\* The scheduler loops of u that have not terminated.
LiveLoops(u) == {t \in TaskIds : tasks[t].st \in {"live", "cancelling"} /\ tasks[t].user = u}

\* A record the program itself may have written before this boot: none, or one
\* with a credential (set_token_command creates it) and either flag.
BootRecords == {NoRecord} \cup {UserData("ey1", a) : a \in BOOLEAN}

World(users, ncalls, niters, nhist) ==
    [users |-> users, calls |-> ncalls, iters |-> niters, hist |-> nhist]
Only(n) == [u \in Users |-> IF u = "u1" THEN n ELSE 0]

InitCommon ==
    /\ user_data \in [Users -> BootRecords]
    /\ \A u \in Users \ world.users : user_data[u] = NoRecord
    /\ claim_history = [u \in Users |-> <<>>]
    /\ AUTO_CLAIM_TASKS = [u \in Users |-> NoTask]
    /\ LAST_LONG_WAIT_NOTIFICATION = [u \in Users |-> FALSE]
    /\ tasks = [t \in TaskIds |-> FreeTask]
    /\ handler = IdleHandler
    /\ calls = 0
    /\ booted = FALSE
    /\ USER_LOCKS = [u \in Users |-> Unlocked]

\* One user has a record and sends commands.
Init == world = World({"u1"}, MaxCalls, Only(MaxIter), MaxHist) /\ InitCommon
\* The same user, in shorter runs with a longer history.
InitHistory ==
    world = World({"u1"}, MaxCallsHistory, Only(MaxIterHistory), MaxHistHistory) /\ InitCommon
\* Two users with records, both sending commands.
InitUsers ==
    /\ world = World(Users, MaxCallsUsers,
                     [u \in Users |-> IF u = "u1" THEN MaxIterUsers ELSE MaxIterSecond],
                     MaxHistUsers)
    /\ InitCommon

\* The entries of a history file written by earlier runs: a failed claim and a
\* claim that raised the balance from BalLow to BalMix.
StoredEntries ==
    { history_entry(BalLow, Dict(DBool(FALSE), Absent, Absent), DAbsent),
      history_entry(BalLow, Dict(DBool(TRUE), Absent, Absent), DBal(BalMix)) }
StoredHistories == UNION { [1..n -> StoredEntries] : n \in 0..MaxStored }
\* After a boot that found no user flagged active: one user with a history file.
InitDisplay ==
    /\ world = World({"u1"}, MaxCallsDisplay, Only(0), 0)
    /\ user_data = [u \in Users |-> NoRecord]
    /\ claim_history \in [Users -> StoredHistories]
    /\ claim_history["u2"] = <<>>
    /\ AUTO_CLAIM_TASKS = [u \in Users |-> NoTask]
    /\ LAST_LONG_WAIT_NOTIFICATION = [u \in Users |-> FALSE]
    /\ tasks = [t \in TaskIds |-> FreeTask]
    /\ handler = IdleHandler
    /\ calls = 0
    /\ booted = TRUE
    /\ USER_LOCKS = [u \in Users |-> Unlocked]

\* One user, in the runs in which the record file can be lost.
InitFaults ==
    world = World({"u1"}, MaxCallsFaults, Only(MaxIterFaults), MaxHistFaults) /\ InitCommon

\* Two users, in the runs that shut down and boot again.
InitRestart ==
    world = World(Users, MaxCallsRestart, Only(MaxIterRestart), MaxHistRestart) /\ InitCommon

(***************************************************************************)
(* asyncio.create_task(auto_claim_task_function(u, ...)): the id of the    *)
(* new task, and the task table with it.                                   *)
(***************************************************************************)
FreeIds == {t \in TaskIds : tasks[t].st = "free"}
NewId(tt) == CHOOSE t \in TaskIds : tt[t].st = "free" /\ \A x \in TaskIds : tt[x].st = "free" => t <= x
create_task(tt, u) ==
    [tt EXCEPT ![NewId(tt)] = [FreeTask EXCEPT !.st = "live", !.user = u, !.pc = "new"]]

(***************************************************************************)
(* post_init: the boot-time restart of the loops flagged active.  It runs  *)
(* before any update is dispatched and does not suspend between files.     *)
(***************************************************************************)
UserOrder == <<"u1", "u2">>

\* A restart that looks at the registry alone.
NeedsRestartUnflagged(tt, reg, u) ==
    reg[u] = NoTask \/ tt[reg[u]].st \in {"finished", "cancelled"}

\* bot.py 914-920: flag set, and no task or a finished one under the key.
NeedsRestart(tt, reg, u) ==
    /\ user_data[u].auto_claim_active
    /\ (reg[u] = NoTask \/ tt[reg[u]].st \in {"finished", "cancelled"})

RECURSIVE restart_all(_, _, _)
restart_all(i, tt, reg) ==
    IF i > Len(UserOrder) THEN <<tt, reg>>
    ELSE LET u == UserOrder[i]
         IN  IF NeedsRestart(tt, reg, u)
             THEN restart_all(i + 1, create_task(tt, u), [reg EXCEPT ![u] = NewId(tt)])
             ELSE restart_all(i + 1, tt, reg)

post_init ==
    /\ ~booted
    /\ booted' = TRUE
    /\ LET res == restart_all(1, tasks, AUTO_CLAIM_TASKS)
       IN  tasks' = res[1] /\ AUTO_CLAIM_TASKS' = res[2]
    /\ UNCHANGED <<user_data, claim_history, LAST_LONG_WAIT_NOTIFICATION, handler,
                   calls, world, USER_LOCKS>>

(***************************************************************************)
(* auto_claim_task_function.  A task record holds the coroutine's locals:  *)
(* user_data (the dict loaded at 602 / 775), tok (current_auth_token),     *)
(* before (the balances before the claim), code (a status code kept across *)
(* a send), sleep (the range sleep_after_action_sec was drawn from), and   *)
(* the suspension it is at (pc).  iter, notes, submits, seen and exit       *)
(* record what the loop did: iterations begun; messages sent, claims       *)
(* submitted and remote answers received in the current iteration; and how *)
(* it ended.  entered is the persisted flag as it was when the current     *)
(* iteration began.                                                        *)
(***************************************************************************)
\* A coroutine that runs on after cancel() until it ends by itself.
Step_uncancelled(t) == booted /\ tasks[t].st \in {"live", "cancelling"}

\* The coroutine is resumed at its suspension: the task was created, and no
\* cancel() is pending for it.
Step(t) == booted /\ tasks[t].st = "live"

\* What a remote call of the iteration answered: the call and the class of its
\* answer (for a failed call, the class of its HTTP status).
Class(code) ==
    IF code = 401 THEN "401" ELSE IF code = 429 THEN "429"
    ELSE IF code = 400 THEN "400" ELSE "error"
Saw(rec, call, answer) == [rec EXCEPT !.seen = @ \cup {<<call, answer>>}]
\* The failures make_api_request turns into an error_message (bot.py 148-158): a
\* timeout, a connection failure, a body that is not JSON.
Faults == {"timeout", "connect", "notjson"}
Fault(r) ==
    IF r.t \in {"timeout", "connect"} THEN r.t
    ELSE IF r.status < 400 /\ r.body.kind = "text" THEN "notjson"
    ELSE "none"
SawFault(rec, call, r) == IF Fault(r) \in Faults THEN Saw(rec, call, Fault(r)) ELSE rec
\* What checkClaimable answered: the class of a failure, or the isClaimable field.
CheckAnswer(payload, code) ==
    IF Falsy(payload) THEN Class(code)
    ELSE IF payload.isClaimable THEN "claimable" ELSE "waiting"

\* The task ends: the coroutine returned or raised.
Ended(rec, why) ==
    [FreeTask EXCEPT !.st = "finished", !.user = rec.user, !.exit = why,
                     !.waited = rec.waited]

\* An exit that empties the registry and the notification times.
LoopExit_everyone(t, rec, why) ==
    /\ tasks' = [tasks EXCEPT ![t] = Ended(rec, why)]
    /\ AUTO_CLAIM_TASKS' = [u \in Users |-> NoTask]
    /\ LAST_LONG_WAIT_NOTIFICATION' = [u \in Users |-> FALSE]

\* bot.py 777-779: the code after the while loop.
LoopExit(t, rec, why) ==
    /\ tasks' = [tasks EXCEPT ![t] = Ended(rec, why)]
    /\ AUTO_CLAIM_TASKS' = [AUTO_CLAIM_TASKS EXCEPT ![rec.user] = NoTask]
    /\ LAST_LONG_WAIT_NOTIFICATION' = [LAST_LONG_WAIT_NOTIFICATION EXCEPT ![rec.user] = FALSE]

\* bot.py 604-607: the while test on the local user_data, then the iteration's
\* first suspension (send_chat_action).
LoopTest(t, rec) ==
    IF rec.user_data.auto_claim_active
    THEN /\ rec.iter < world.iters[rec.user]
         /\ tasks' = [tasks EXCEPT ![t] =
                [rec EXCEPT !.pc = "typing", !.sleep = "5-10m", !.iter = rec.iter + 1,
                            !.notes = 0, !.submits = 0, !.seen = {}, !.tok = NoToken,
                            !.before = NoBal, !.code = NoStatus,
                            !.entered = user_data[rec.user].auto_claim_active]]
         /\ UNCHANGED <<AUTO_CLAIM_TASKS, LAST_LONG_WAIT_NOTIFICATION>>
    ELSE LoopExit(t, rec, "flag")

\* user_data["auto_claim_active"] = False; save_user_data(user_id, user_data):
\* the whole local dict is written.
Deactivated(ud) == [ud EXCEPT !.auto_claim_active = FALSE]

\* bot.py 589-607: the task's first run.
LoopStart(t) ==
    /\ Step(t) /\ tasks[t].pc = "new"
    /\ LET u == tasks[t].user
           tok == user_data[u].auth_token
       IN  IF tok = NoToken
           THEN /\ tasks' = [tasks EXCEPT ![t].pc = "notoken_send"]
                /\ UNCHANGED <<AUTO_CLAIM_TASKS, LAST_LONG_WAIT_NOTIFICATION>>
           ELSE LoopTest(t, [tasks[t] EXCEPT !.user_data = user_data[u]])
    /\ UNCHANGED <<user_data, claim_history, handler, calls, booted, world, USER_LOCKS>>

\* bot.py 607-612: send_chat_action returned; reload the credential, call
\* api_check_claimable.
LoopTyping(t) ==
    /\ Step(t) /\ tasks[t].pc = "typing"
    /\ LET tok == user_data[tasks[t].user].auth_token
       IN  tasks' = [tasks EXCEPT ![t] =
                IF tok = NoToken
                THEN [@ EXCEPT !.pc = "cfg_send"]
                ELSE [@ EXCEPT !.pc = "check", !.tok = tok]]
    /\ UNCHANGED <<user_data, claim_history, AUTO_CLAIM_TASKS, LAST_LONG_WAIT_NOTIFICATION,
                   handler, calls, booted, world, USER_LOCKS>>

\* The locals no line reads again before it assigns them: once the iteration has
\* made its last request, the token, the balances and the status code; and the
\* user_data dict where line 775 reloads it.  The answers of the iteration are
\* kept until it sleeps.
Resting == {"sleep", "nobalance_sleep", "cycle_send", "ratelimit_send", "exc_send",
            "authclaim_send"}
Rest(rec) ==
    IF rec.pc \in Resting
    THEN [rec EXCEPT !.tok = NoToken, !.before = NoBal, !.code = NoStatus,
                     !.user_data = IF rec.pc = "sleep" THEN NoRecord ELSE @,
                     !.seen = IF rec.pc \in {"sleep", "nobalance_sleep"} THEN {} ELSE @]
    ELSE rec

(***************************************************************************)
(* bot.py 709-741: the wait after a check that says "not claimable".       *)
(* wait_ms is nextFrame - now; quiet is now - last notification time, in   *)
(* seconds.  The result is <<range of the sleep, whether to notify>>.      *)
(***************************************************************************)
LONG_QUIET == 7200     \* 2 * 3600
SHORT_QUIET == 2700    \* 45 * 60
EPOCH == 1700000000    \* time.time() when no notification time is stored
\* Seconds that may have passed since the last wait notification to the user.
Elapsed == {1800, 3600, 7300}

\* A policy whose buckets begin at their boundaries.
wait_policy_inclusive(wait_ms, quiet) ==
    IF wait_ms > 0
    THEN IF wait_ms >= HOUR_MS THEN <<"25-35m", quiet > LONG_QUIET>>
         ELSE IF wait_ms >= QUARTER_MS THEN <<"5-10m", quiet > SHORT_QUIET>>
         ELSE <<"rem+10-45s", TRUE>>
    ELSE <<"30-90s", FALSE>>

\* A policy with one bucket.
wait_policy_flat(wait_ms, quiet) == <<"5-10m", TRUE>>

wait_policy(wait_ms, quiet) ==
    IF wait_ms > 0
    THEN IF wait_ms > HOUR_MS THEN <<"25-35m", quiet > LONG_QUIET>>
         ELSE IF wait_ms > QUARTER_MS THEN <<"5-10m", quiet > SHORT_QUIET>>
         ELSE <<"rem+10-45s", TRUE>>
    ELSE <<"30-90s", FALSE>>

\* A test that forgets the isClaimable field.
is_claimable_any(payload) == ~Falsy(payload)

\* bot.py 621: claim_status_payload and claim_status_payload.get('isClaimable')
is_claimable(payload) == ~Falsy(payload) /\ payload.isClaimable

\* bot.py 612-748: api_check_claimable returned.
LoopCheck(t, r, e) ==
    /\ Step(t) /\ tasks[t].pc = "check"
    /\ LET u == tasks[t].user
           res == api_check_claimable(r)
           payload == res[1]
           code == res[2]
           quiet == IF LAST_LONG_WAIT_NOTIFICATION[u] THEN e ELSE EPOCH
           pol == wait_policy(payload.rem, quiet)
           rec == SawFault(Saw(tasks[t], "check", CheckAnswer(payload, code)), "check", r)
       IN  tasks' = [tasks EXCEPT ![t] = Rest(
             IF code = 401 THEN [rec EXCEPT !.pc = "auth_send"]
             ELSE IF is_claimable(payload)
                  THEN [rec EXCEPT !.pc = "bal_before"]
             ELSE IF ~Falsy(payload)
                  THEN IF payload.nextFrame = "null" THEN [rec EXCEPT !.pc = "exc_send"]
                       ELSE IF payload.nextFrame = "zero" THEN [rec EXCEPT !.pc = "unknown_send"]
                       ELSE [Saw(rec, "remaining", payload.rem) EXCEPT
                                  !.sleep = pol[1],
                                  !.pc = IF pol[2] THEN "wait_send" ELSE "sleep"]
             ELSE [rec EXCEPT !.pc = "failed_send", !.code = code])]
    /\ UNCHANGED <<user_data, claim_history, AUTO_CLAIM_TASKS, LAST_LONG_WAIT_NOTIFICATION,
                   handler, calls, booted, world, USER_LOCKS>>

\* A loop that goes on to the claim whatever the balance request answered.
LoopBalanceBefore_unchecked(t, r) ==
    /\ Step(t) /\ tasks[t].pc = "bal_before"
    /\ LET payload == api_get_token_info(r)
           code == make_api_request(r)[2]
       IN  tasks' = [tasks EXCEPT ![t] =
             [SawFault(Saw(@, "before", IF Falsy(payload) THEN Class(code) ELSE "ok"),
                       "before", r) EXCEPT
                 !.pc = "attempt_send",
                 !.before = IF Falsy(payload) THEN NoBal ELSE payload.v]]
    /\ UNCHANGED <<user_data, claim_history, AUTO_CLAIM_TASKS, LAST_LONG_WAIT_NOTIFICATION,
                   handler, calls, booted, world, USER_LOCKS>>

\* bot.py 624-637: api_get_token_info (before the claim) returned.
LoopBalanceBefore(t, r) ==
    /\ Step(t) /\ tasks[t].pc = "bal_before"
    /\ LET payload == api_get_token_info(r)
           code == make_api_request(r)[2]
       IN  tasks' = [tasks EXCEPT ![t] =
             IF Falsy(payload)
             THEN [SawFault(Saw(@, "before", Class(code)), "before", r) EXCEPT
                        !.pc = "nobalance_send"]
             ELSE [Saw(@, "before", "ok") EXCEPT !.pc = "attempt_send", !.before = payload.v]]
    /\ UNCHANGED <<user_data, claim_history, AUTO_CLAIM_TASKS, LAST_LONG_WAIT_NOTIFICATION,
                   handler, calls, booted, world, USER_LOCKS>>

\* bot.py 636-639: the sleep of 5..15 s, then send_chat_action, returned; the loop
\* calls api_claim_airdrop.
LoopPause(t) ==
    /\ Step(t) /\ tasks[t].pc \in {"attempt_sleep", "attempt_typing", "success_typing"}
    /\ tasks' = [tasks EXCEPT ![t] =
          IF @.pc = "attempt_sleep" THEN [@ EXCEPT !.pc = "attempt_typing"]
          ELSE IF @.pc = "attempt_typing"
               THEN [@ EXCEPT !.pc = "claim", !.submits = @ + 1]
          ELSE [@ EXCEPT !.pc = "bal_after"]]
    /\ UNCHANGED <<user_data, claim_history, AUTO_CLAIM_TASKS, LAST_LONG_WAIT_NOTIFICATION,
                   handler, calls, booted, world, USER_LOCKS>>

\* A save of the new entry alone.
append_history_overwrite(u, entry) ==
    /\ Len(claim_history[u]) < world.hist
    /\ claim_history' = [claim_history EXCEPT ![u] = <<entry>>]

\* bot.py 679-681 (and 523-525): load_claim_history, append, save_claim_history.
append_history(u, entry) ==
    /\ Len(claim_history[u]) < world.hist
    /\ claim_history' = [claim_history EXCEPT ![u] = Append(@, entry)]

\* bot.py 639-681: api_claim_airdrop returned.  A claim that did not succeed is
\* recorded at once; one that did is recorded after the second snapshot.
LoopClaim(t, r) ==
    /\ Step(t) /\ tasks[t].pc = "claim"
    /\ LET res == api_claim_airdrop(r)
       IN  IF claim_successful(res[1])
           THEN /\ tasks' = [tasks EXCEPT ![t] = [Saw(@, "claim", "ok") EXCEPT
                                                    !.pc = "success_typing"]]
                /\ UNCHANGED claim_history
           ELSE /\ append_history(tasks[t].user, history_entry(tasks[t].before, res[1], DAbsent))
                /\ tasks' = [tasks EXCEPT ![t] =
                        [SawFault(Saw(@, "claim", Class(res[2])), "claim", r) EXCEPT
                            !.pc = "claimfail_send", !.code = res[2], !.before = NoBal]]
    /\ UNCHANGED <<user_data, AUTO_CLAIM_TASKS, LAST_LONG_WAIT_NOTIFICATION,
                   handler, calls, booted, world, USER_LOCKS>>

\* bot.py 651-681: api_get_token_info (after a successful claim) returned.
LoopBalanceAfter(t, r) ==
    /\ Step(t) /\ tasks[t].pc = "bal_after"
    /\ append_history(tasks[t].user,
            history_entry(tasks[t].before, Dict(DBool(TRUE), Absent, Absent),
                          api_get_token_info(r)))
    /\ LET payload == api_get_token_info(r)
           code == make_api_request(r)[2]
       IN  tasks' = [tasks EXCEPT ![t] =
              [SawFault(Saw(@, "after", IF Falsy(payload) THEN Class(code) ELSE "ok"),
                        "after", r) EXCEPT
                  !.pc = "success_send", !.before = NoBal]]
    /\ UNCHANGED <<user_data, AUTO_CLAIM_TASKS, LAST_LONG_WAIT_NOTIFICATION,
                   handler, calls, booted, world, USER_LOCKS>>

(***************************************************************************)
(* The sends of the loop.  bot_instance.send_message returned: the message *)
(* counts as sent, and the coroutine runs on to its next suspension.       *)
(***************************************************************************)
FatalSends == {"auth_send", "authclaim_send", "cfg_send", "notoken_send"}
PlainSends == {"attempt_send", "nobalance_send", "claimfail_send", "success_send",
               "cycle_send", "wait_send", "unknown_send", "failed_send",
               "ratelimit_send", "exc_send"}

\* A loop that sends a failed claim again.
after_claim_failure_retries(r, code) == [r EXCEPT !.pc = "attempt_typing"]

\* A test that takes every failed claim for a rejected credential.
after_claim_failure_stops(r, code) == [r EXCEPT !.pc = "authclaim_send"]

\* bot.py 698-707: after the "claim failed" message, a 401 stops the loop and
\* anything else ends the cycle with the wait of 5..10 minutes.
after_claim_failure(r, code) ==
    IF code = 401 THEN [r EXCEPT !.pc = "authclaim_send"]
    ELSE [r EXCEPT !.pc = "cycle_send", !.sleep = "5-10m"]

\* Where the coroutine suspends next after a send that stops nothing.
after_send(rec) ==
    LET r == [rec EXCEPT !.notes = @ + 1]
    IN  Rest(
        CASE rec.pc = "attempt_send" -> [r EXCEPT !.pc = "attempt_sleep"]            \* 635-636
          [] rec.pc = "nobalance_send" -> [r EXCEPT !.pc = "nobalance_sleep", !.sleep = "3-7m"]  \* 627-628
          [] rec.pc = "claimfail_send" -> after_claim_failure(r, rec.code)           \* 697-707
          [] rec.pc = "success_send" -> [r EXCEPT !.pc = "cycle_send", !.sleep = "5-10m"]  \* 695, 705-707
          [] rec.pc = "cycle_send" -> [r EXCEPT !.pc = "sleep"]                      \* 707, 774
          [] rec.pc = "wait_send" -> [r EXCEPT !.pc = "sleep", !.waited = TRUE]      \* 733-734
          [] rec.pc = "unknown_send" -> [r EXCEPT !.pc = "sleep"]                    \* 741
          [] rec.pc = "failed_send" ->                                               \* 744-748
                IF rec.code = 429 THEN [r EXCEPT !.pc = "ratelimit_send", !.sleep = "45-75m"]
                ELSE [r EXCEPT !.pc = "sleep"]
          [] rec.pc = "ratelimit_send" -> [r EXCEPT !.pc = "sleep"]                  \* 748
          [] rec.pc = "exc_send" -> [r EXCEPT !.pc = "sleep", !.sleep = "2-5m"])     \* 770-771

LoopNotified(t) ==
    /\ Step(t) /\ tasks[t].pc \in PlainSends
    /\ tasks' = [tasks EXCEPT ![t] = after_send(@)]
    /\ LAST_LONG_WAIT_NOTIFICATION' =
          IF tasks[t].pc = "wait_send"
          THEN [LAST_LONG_WAIT_NOTIFICATION EXCEPT ![tasks[t].user] = TRUE]
          ELSE LAST_LONG_WAIT_NOTIFICATION
    /\ UNCHANGED <<user_data, claim_history, AUTO_CLAIM_TASKS,
                   handler, calls, booted, world, USER_LOCKS>>

\* The record a stopping loop saves.  At 617-618, 701-702 and 753-754 it is the
\* dict the loop loaded when the iteration began; at 597-599 it is loaded anew.
fatal_record(rec) ==
    IF rec.pc = "notoken_send" THEN Deactivated(user_data[rec.user])
    ELSE Deactivated(rec.user_data)

\* bot.py 616-619, 700-703, 752-755 (break, then 777-779) and 596-600 (return).
LoopFatal(t) ==
    /\ Step(t) /\ tasks[t].pc \in FatalSends
    /\ LET rec == [tasks[t] EXCEPT !.notes = @ + 1]
           why == CASE rec.pc = "cfg_send" -> "config"
                    [] rec.pc = "notoken_send" -> "notoken"
                    [] rec.pc = "auth_send" -> "auth_check"
                    [] rec.pc = "authclaim_send" -> "auth_claim"
       IN  /\ user_data' = [user_data EXCEPT ![rec.user] = fatal_record(rec)]
           /\ IF rec.pc = "notoken_send"
              THEN /\ tasks' = [tasks EXCEPT ![t] = Ended(rec, why)]
                   /\ UNCHANGED <<AUTO_CLAIM_TASKS, LAST_LONG_WAIT_NOTIFICATION>>
              ELSE LoopExit(t, rec, why)
    /\ UNCHANGED <<claim_history, handler, calls, booted, world, USER_LOCKS>>

\* bot.py 774-775 and 604: asyncio.sleep returned; reload user_data, test the flag.
\* After the sleep at 628 the loop continues without reloading (629).
LoopWake(t) ==
    /\ Step(t) /\ tasks[t].pc \in {"sleep", "nobalance_sleep"}
    /\ LoopTest(t, IF tasks[t].pc = "sleep"
                   THEN [tasks[t] EXCEPT !.user_data = user_data[tasks[t].user]]
                   ELSE tasks[t])
    /\ UNCHANGED <<user_data, claim_history, handler, calls, booted, world, USER_LOCKS>>

\* The Telegram calls of the loop: the sends above and the three send_chat_action.
TelegramCalls == PlainSends \cup FatalSends \cup {"typing", "attempt_typing", "success_typing"}
\* Those awaited outside the try block (596) or inside an except clause (752, 770).
Unguarded == {"notoken_send", "cfg_send", "exc_send"}

\* A Telegram call of the loop raised (telegram.error.TelegramError).  Inside the
\* try block the exception reaches "except Exception" (767), whose first await is
\* the send at 770.  Anywhere else it leaves the coroutine: the task ends with the
\* exception, and neither the flag nor the registry is touched.
LoopSendFailed(t) ==
    /\ Step(t) /\ tasks[t].pc \in TelegramCalls
    /\ tasks' = [tasks EXCEPT ![t] =
          IF @.pc \in Unguarded THEN Ended(@, "error") ELSE Rest([@ EXCEPT !.pc = "exc_send"])]
    /\ UNCHANGED <<user_data, claim_history, AUTO_CLAIM_TASKS, LAST_LONG_WAIT_NOTIFICATION,
                   handler, calls, booted, world, USER_LOCKS>>

\* task.cancel() took effect: CancelledError is raised at the suspension the task
\* is at; no handler of the loop catches it and nothing after the loop runs.  The
\* record keeps the suspension the task was cancelled at.
TaskCancelled(t) ==
    /\ booted /\ tasks[t].st = "cancelling"
    /\ tasks' = [tasks EXCEPT ![t] =
          [Ended(@, "cancelled") EXCEPT !.st = "cancelled", !.pc = tasks[t].pc]]
    /\ UNCHANGED <<user_data, claim_history, AUTO_CLAIM_TASKS, LAST_LONG_WAIT_NOTIFICATION,
                   handler, calls, booted, world, USER_LOCKS>>

Loop(t) ==
    \/ LoopStart(t)
    \/ LoopTyping(t)
    \/ \E r \in CheckResponses, e \in Elapsed : LoopCheck(t, r, e)
    \/ \E r \in TokenResponses : LoopBalanceBefore(t, r)
    \/ LoopPause(t)
    \/ \E r \in ClaimResponses : LoopClaim(t, r)
    \/ \E r \in TokenResponses : LoopBalanceAfter(t, r)
    \/ LoopNotified(t)
    \/ LoopFatal(t)
    \/ LoopSendFailed(t)
    \/ LoopWake(t)
    \/ TaskCancelled(t)

(***************************************************************************)
(* The handlers.  main() builds the Application without concurrent_updates *)
(* and registers every handler as blocking, so the Application awaits one  *)
(* handler before it takes the next update: at most one handler coroutine  *)
(* is in progress, interleaved with the scheduler loops.  The handler      *)
(* record holds the coroutine's locals: the user, the command argument     *)
(* (arg), the task a stop awaits (task), the token and balances of a       *)
(* manual claim (tok, before), the status code of its submitClaim (code),  *)
(* the text it answers with (reply), the entries /history shows (shown)    *)
(* and the suspension it is at (pc).  Every handler first awaits send_chat_action  *)
(* ("typing") and last awaits the send of its answer ("reply").            *)
(***************************************************************************)
Ops == {"start", "stop", "status", "claim", "settoken"}
\* /settoken arguments: the tokens, and one that does not start with "ey".
TokenArgs == Tokens \cup {"xx"}
Args(op) == IF op = "settoken" THEN TokenArgs ELSE {NoToken}

At(op, pc) == handler.op = op /\ handler.pc = pc
Replied(text) == [handler EXCEPT !.pc = "reply", !.reply = text]

\* An update reaches its handler once the previous handler has ended.
Dispatch(op, u, a) ==
    /\ booted /\ calls < world.calls /\ u \in world.users
    /\ handler.op = "idle"
    /\ handler' = [IdleHandler EXCEPT !.op = op, !.user = u, !.pc = "typing", !.arg = a]
    /\ calls' = calls + 1
    /\ UNCHANGED <<user_data, claim_history, AUTO_CLAIM_TASKS, LAST_LONG_WAIT_NOTIFICATION,
                   tasks, booted, world, USER_LOCKS>>

\* The handler's last send ended (returned or raised): the handler is over.
Return ==
    /\ handler.pc = "reply"
    /\ handler' = IdleHandler
    /\ UNCHANGED <<user_data, claim_history, AUTO_CLAIM_TASKS, LAST_LONG_WAIT_NOTIFICATION,
                   tasks, calls, booted, world, USER_LOCKS>>

\* A Telegram call a handler awaits before it is done raised: the exception leaves
\* the handler, which does nothing more.
HandlerCalls == {"typing", "processing", "success_typing", "verifying"}
Raise ==
    /\ handler.pc \in HandlerCalls
    /\ handler' = IdleHandler
    /\ UNCHANGED <<user_data, claim_history, AUTO_CLAIM_TASKS, LAST_LONG_WAIT_NOTIFICATION,
                   tasks, calls, booted, world, USER_LOCKS>>

\* A test that takes every user to have a credential.
has_credential_always(u) == TRUE

\* bot.py 784-786: get_auth_token(user_id) returned a token.
has_credential(u) == user_data[u].auth_token # NoToken

\* The same test with the "not" before done() left out.
already_active_done(u) ==
    user_data[u].auto_claim_active /\ AUTO_CLAIM_TASKS[u] # NoTask /\ done(AUTO_CLAIM_TASKS[u])

\* bot.py 790: the test that makes start a no-op.
already_active(u) ==
    user_data[u].auto_claim_active /\ task_running(u)

\* bot.py 784-802: core_autoclaim_start after its send_chat_action.
core_autoclaim_start ==
    /\ At("start", "typing")
    /\ LET u == handler.user
       IN  IF ~has_credential(u)
           THEN /\ handler' = Replied("no_token")
                /\ UNCHANGED <<user_data, tasks, AUTO_CLAIM_TASKS>>
           ELSE IF already_active(u)
           THEN /\ handler' = Replied("already_active")
                /\ UNCHANGED <<user_data, tasks, AUTO_CLAIM_TASKS>>
           ELSE /\ FreeIds # {}
                /\ user_data' = [user_data EXCEPT ![u].auto_claim_active = TRUE]
                /\ tasks' = create_task(tasks, u)
                /\ AUTO_CLAIM_TASKS' = [AUTO_CLAIM_TASKS EXCEPT ![u] = NewId(tasks)]
                /\ handler' = Replied("activated")
    /\ UNCHANGED <<claim_history, LAST_LONG_WAIT_NOTIFICATION, calls, booted, world, USER_LOCKS>>

\* A stop that forgets the registry.
deregister_times_only(u) ==
    /\ UNCHANGED AUTO_CLAIM_TASKS
    /\ LAST_LONG_WAIT_NOTIFICATION' = [LAST_LONG_WAIT_NOTIFICATION EXCEPT ![u] = FALSE]

\* bot.py 823-824
deregister(u) ==
    /\ AUTO_CLAIM_TASKS' = [AUTO_CLAIM_TASKS EXCEPT ![u] = NoTask]
    /\ LAST_LONG_WAIT_NOTIFICATION' = [LAST_LONG_WAIT_NOTIFICATION EXCEPT ![u] = FALSE]

\* A test that never finds the service inactive.
nothing_to_stop_never(u) == FALSE

\* bot.py 809-812: neither the flag nor a running task.
nothing_to_stop(u) == ~user_data[u].auto_claim_active /\ ~task_running(u)

\* bot.py 807-820: core_autoclaim_stop after its send_chat_action, up to the
\* await of the cancelled task.
core_autoclaim_stop ==
    /\ At("stop", "typing")
    /\ LET u == handler.user
           t == AUTO_CLAIM_TASKS[u]
       IN  IF nothing_to_stop(u)
           THEN /\ handler' = Replied("not_active")
                /\ UNCHANGED <<user_data, tasks, AUTO_CLAIM_TASKS, LAST_LONG_WAIT_NOTIFICATION>>
           ELSE /\ user_data' = [user_data EXCEPT ![u].auto_claim_active = FALSE]
                /\ IF task_running(u)
                   THEN /\ tasks' = [tasks EXCEPT ![t].st = "cancelling"]
                        /\ handler' = [handler EXCEPT !.pc = "await_task", !.task = t]
                        /\ UNCHANGED <<AUTO_CLAIM_TASKS, LAST_LONG_WAIT_NOTIFICATION>>
                   ELSE /\ deregister(u)
                        /\ handler' = Replied("deactivated")
                        /\ UNCHANGED tasks
    /\ UNCHANGED <<claim_history, calls, booted, world, USER_LOCKS>>

\* bot.py 820-827: the awaited task is done.
stop_awaited ==
    /\ At("stop", "await_task")
    /\ done(handler.task)
    /\ deregister(handler.user)
    /\ handler' = Replied("deactivated")
    /\ UNCHANGED <<user_data, claim_history, tasks, calls, booted, world, USER_LOCKS>>

\* A status that reports the flag alone.
status_text_flag(active, running) == IF active THEN "Active" ELSE "Inactive"

\* bot.py 837-841: what core_autoclaim_status answers.
status_text(active, running) ==
    IF active /\ running THEN "Active"
    ELSE IF active /\ ~running THEN "Desynced"
    ELSE "Inactive"

\* A status that clears the flag when it finds no running task.
core_autoclaim_status_repairing ==
    /\ At("status", "typing")
    /\ handler' = Replied(status_text(user_data[handler.user].auto_claim_active,
                                      task_running(handler.user)))
    /\ user_data' = [user_data EXCEPT ![handler.user].auto_claim_active =
                          @ /\ task_running(handler.user)]
    /\ UNCHANGED <<claim_history, AUTO_CLAIM_TASKS, LAST_LONG_WAIT_NOTIFICATION,
                   tasks, calls, booted, world, USER_LOCKS>>

\* bot.py 832-843: core_autoclaim_status after its send_chat_action.
core_autoclaim_status ==
    /\ At("status", "typing")
    /\ handler' = Replied(status_text(user_data[handler.user].auto_claim_active,
                                      task_running(handler.user)))
    /\ UNCHANGED <<user_data, claim_history, AUTO_CLAIM_TASKS, LAST_LONG_WAIT_NOTIFICATION,
                   tasks, calls, booted, world, USER_LOCKS>>

DISPLAY_LIMIT == 10
\* The first entries of the file, in the order of the file.
history_page_oldest(user_history) ==
    IF Len(user_history) <= DISPLAY_LIMIT THEN user_history
    ELSE SubSeq(user_history, 1, DISPLAY_LIMIT)

\* bot.py 553: reversed(user_history[-10:])
history_page(user_history) ==
    LET n == Len(user_history)
        last == IF n <= DISPLAY_LIMIT THEN user_history
                ELSE SubSeq(user_history, n - DISPLAY_LIMIT + 1, n)
    IN  [i \in 1..Len(last) |-> last[Len(last) + 1 - i]]

\* bot.py 545-587: core_history_action after its send_chat_action: load the
\* history, build the text, send it.
core_history_action ==
    /\ At("history", "typing")
    /\ LET user_history == claim_history[handler.user]
       IN  handler' = [Replied(IF user_history = <<>> THEN "no_history" ELSE "history")
                          EXCEPT !.shown = history_page(user_history)]
    /\ UNCHANGED <<user_data, claim_history, AUTO_CLAIM_TASKS, LAST_LONG_WAIT_NOTIFICATION,
                   tasks, calls, booted, world, USER_LOCKS>>

\* bot.py 328-330: load, set auth_token, save.
with_token(ud, token) == [ud EXCEPT !.auth_token = token]

\* bot.py 324-335: set_token_command after its send_chat_action.  The token
\* is saved; the handler then awaits the messages of 331-334 and the profile
\* request of 335 ("verifying").
set_token_command ==
    /\ At("settoken", "typing")
    /\ LET u == handler.user
           token == handler.arg
       IN  IF token \notin Tokens
           THEN /\ handler' = Replied("bad_format")
                /\ UNCHANGED user_data
           ELSE /\ user_data' = [user_data EXCEPT ![u] = with_token(user_data[u], token)]
                /\ handler' = [handler EXCEPT !.pc = "verifying"]
    /\ UNCHANGED <<claim_history, AUTO_CLAIM_TASKS, LAST_LONG_WAIT_NOTIFICATION,
                   tasks, calls, booted, world, USER_LOCKS>>

\* A verification that discards the token it could not verify.
set_token_verified_discarding(r) ==
    /\ At("settoken", "verifying")
    /\ handler' = Replied(IF Falsy(api_get_user_profile(r)) THEN "unverified" ELSE "verified")
    /\ user_data' = IF Falsy(api_get_user_profile(r))
                     THEN [user_data EXCEPT ![handler.user] = with_token(@, NoToken)]
                     ELSE user_data
    /\ UNCHANGED <<claim_history, AUTO_CLAIM_TASKS, LAST_LONG_WAIT_NOTIFICATION,
                   tasks, calls, booted, world, USER_LOCKS>>

\* bot.py 335-347: api_get_user_profile returned; the answer says whether the
\* token was verified.
set_token_verified(r) ==
    /\ At("settoken", "verifying")
    /\ handler' = Replied(IF Falsy(api_get_user_profile(r)) THEN "unverified" ELSE "verified")
    /\ UNCHANGED <<user_data, claim_history, AUTO_CLAIM_TASKS, LAST_LONG_WAIT_NOTIFICATION,
                   tasks, calls, booted, world, USER_LOCKS>>

(***************************************************************************)
(* core_claim_action: the manual claim.                                    *)
(***************************************************************************)
\* bot.py 457-465: after send_chat_action; read the token, ask for the balances.
claim_begin ==
    /\ At("claim", "typing")
    /\ LET tok == user_data[handler.user].auth_token
       IN  handler' = IF tok = NoToken THEN Replied("no_token")
                      ELSE [handler EXCEPT !.pc = "bal_before", !.tok = tok]
    /\ UNCHANGED <<user_data, claim_history, AUTO_CLAIM_TASKS, LAST_LONG_WAIT_NOTIFICATION,
                   tasks, calls, booted, world, USER_LOCKS>>

\* bot.py 465-481: api_get_token_info returned; the "processing" message is sent.
claim_balance_before(r) ==
    /\ At("claim", "bal_before")
    /\ LET payload == api_get_token_info(r)
       IN  handler' = IF Falsy(payload) THEN Replied("no_balance")
                      ELSE [handler EXCEPT !.pc = "processing", !.before = payload.v]
    /\ UNCHANGED <<user_data, claim_history, AUTO_CLAIM_TASKS, LAST_LONG_WAIT_NOTIFICATION,
                   tasks, calls, booted, world, USER_LOCKS>>

\* bot.py 478-483 and 494-495: a send returned and the request after it is made.
claim_sent ==
    /\ handler.op = "claim" /\ handler.pc \in {"processing", "success_typing"}
    /\ handler' = [handler EXCEPT !.pc = IF @ = "processing" THEN "claim" ELSE "bal_after"]
    /\ UNCHANGED <<user_data, claim_history, AUTO_CLAIM_TASKS, LAST_LONG_WAIT_NOTIFICATION,
                   tasks, calls, booted, world, USER_LOCKS>>

\* A manual claim that deactivates the user on HTTP 401, as the loop does.
claim_submitted_deactivating(r) ==
    /\ At("claim", "claim")
    /\ LET res == api_claim_airdrop(r)
       IN  /\ IF claim_successful(res[1])
              THEN /\ handler' = [handler EXCEPT !.pc = "success_typing", !.code = res[2]]
                   /\ UNCHANGED claim_history
              ELSE /\ append_history(handler.user, history_entry(handler.before, res[1], DAbsent))
                   /\ handler' = [Replied("claim_failed") EXCEPT !.code = res[2]]
           /\ user_data' = IF res[2] = 401
                            THEN [user_data EXCEPT ![handler.user] = Deactivated(@)]
                            ELSE user_data
    /\ UNCHANGED <<AUTO_CLAIM_TASKS, LAST_LONG_WAIT_NOTIFICATION, tasks, calls, booted, world, USER_LOCKS>>

\* bot.py 483-525: api_claim_airdrop returned.
claim_submitted(r) ==
    /\ At("claim", "claim")
    /\ LET res == api_claim_airdrop(r)
       IN  IF claim_successful(res[1])
           THEN /\ handler' = [handler EXCEPT !.pc = "success_typing", !.code = res[2]]
                /\ UNCHANGED claim_history
           ELSE /\ append_history(handler.user, history_entry(handler.before, res[1], DAbsent))
                /\ handler' = [Replied("claim_failed") EXCEPT !.code = res[2]]
    /\ UNCHANGED <<user_data, AUTO_CLAIM_TASKS, LAST_LONG_WAIT_NOTIFICATION,
                   tasks, calls, booted, world, USER_LOCKS>>

\* bot.py 495-525: api_get_token_info (after a successful claim) returned.
claim_balance_after(r) ==
    /\ At("claim", "bal_after")
    /\ append_history(handler.user,
            history_entry(handler.before, Dict(DBool(TRUE), Absent, Absent),
                          api_get_token_info(r)))
    /\ handler' = Replied("claimed")
    /\ UNCHANGED <<user_data, AUTO_CLAIM_TASKS, LAST_LONG_WAIT_NOTIFICATION,
                   tasks, calls, booted, world, USER_LOCKS>>

core_claim_action ==
    \/ claim_begin
    \/ \E r \in TokenResponses : claim_balance_before(r)
    \/ claim_sent
    \/ \E r \in ClaimResponses : claim_submitted(r)
    \/ \E r \in TokenResponses : claim_balance_after(r)

Handler ==
    \/ \E op \in Ops, u \in Users : \E a \in Args(op) : Dispatch(op, u, a)
    \/ core_autoclaim_start
    \/ core_autoclaim_stop
    \/ stop_awaited
    \/ core_autoclaim_status
    \/ set_token_command
    \/ \E r \in ProfileResponses : set_token_verified(r)
    \/ core_claim_action
    \/ Return
    \/ Raise

Next ==
    \/ post_init
    \/ \E t \in TaskIds : Loop(t)
    \/ Handler

Spec == Init /\ [][Next]_vars
SpecHistory == InitHistory /\ [][Next]_vars
SpecUsers == InitUsers /\ [][Next]_vars

\* /history (bot.py 892, 942) and the menu button (861) on a stored history.
NextDisplay ==
    \/ \E u \in Users : Dispatch("history", u, NoToken)
    \/ core_history_action
    \/ Return
    \/ Raise
SpecDisplay == InitDisplay /\ [][NextDisplay]_vars

\* The file of u's record is removed, or left unparsable by a save that failed
\* after truncating it (bot.py 89-93): from then on load_user_data returns {}
\* (77-84), until the program writes the record again.
FileLost(u) ==
    /\ booted /\ u \in world.users /\ user_data[u] # NoRecord
    /\ user_data' = [user_data EXCEPT ![u] = NoRecord]
    /\ UNCHANGED <<claim_history, AUTO_CLAIM_TASKS, LAST_LONG_WAIT_NOTIFICATION,
                   tasks, handler, calls, booted, world, USER_LOCKS>>

NextFaults ==
    \/ Next
    \/ \E u \in Users : FileLost(u)
SpecFaults == InitFaults /\ [][NextFaults]_vars

(***************************************************************************)
(* Clean shutdown (app.py): Application.stop() lets the handler in         *)
(* progress finish and takes no further update; post_stop then runs        *)
(* cleanup_after_shutdown, whose coroutine takes the place of the handler. *)
(***************************************************************************)
\* The tasks in the registry.
Registered == {AUTO_CLAIM_TASKS[u] : u \in Users} \ {NoTask}

\* A cleanup that stops every user the way core_autoclaim_stop does.
shutdown_begin_deactivating ==
    /\ booted /\ handler.op = "idle"
    /\ tasks' = [t \in TaskIds |->
                    IF t \in Registered /\ tasks[t].st = "live"
                    THEN [tasks[t] EXCEPT !.st = "cancelling"] ELSE tasks[t]]
    /\ handler' = [IdleHandler EXCEPT !.op = "shutdown",
                       !.pc = IF Registered = {} THEN "stopped" ELSE "gather"]
    /\ user_data' = [u \in Users |-> IF AUTO_CLAIM_TASKS[u] # NoTask
                                     THEN Deactivated(user_data[u]) ELSE user_data[u]]
    /\ UNCHANGED <<claim_history, AUTO_CLAIM_TASKS, LAST_LONG_WAIT_NOTIFICATION,
                   calls, booted, world, USER_LOCKS>>

\* app.py 38-44: cancel() on every task in the registry (a no-op on a task that
\* is done), then the await of gather; with an empty registry, nothing.
shutdown_begin ==
    /\ booted /\ handler.op = "idle"
    /\ tasks' = [t \in TaskIds |->
                    IF t \in Registered /\ tasks[t].st = "live"
                    THEN [tasks[t] EXCEPT !.st = "cancelling"] ELSE tasks[t]]
    /\ handler' = [IdleHandler EXCEPT !.op = "shutdown",
                       !.pc = IF Registered = {} THEN "stopped" ELSE "gather"]
    /\ UNCHANGED <<user_data, claim_history, AUTO_CLAIM_TASKS, LAST_LONG_WAIT_NOTIFICATION,
                   calls, booted, world, USER_LOCKS>>

\* app.py 44-45: gather returned, every task of the registry being done; clear().
shutdown_end ==
    /\ At("shutdown", "gather")
    /\ \A t \in Registered : done(t)
    /\ AUTO_CLAIM_TASKS' = [u \in Users |-> NoTask]
    /\ handler' = [handler EXCEPT !.pc = "stopped"]
    /\ UNCHANGED <<user_data, claim_history, LAST_LONG_WAIT_NOTIFICATION,
                   tasks, calls, booted, world, USER_LOCKS>>

\* The process ends and is started again: the module globals are those of a
\* new interpreter (bot.py 46-48), the files are as they were left.
restart ==
    /\ At("shutdown", "stopped")
    /\ tasks' = [t \in TaskIds |-> FreeTask]
    /\ AUTO_CLAIM_TASKS' = [u \in Users |-> NoTask]
    /\ LAST_LONG_WAIT_NOTIFICATION' = [u \in Users |-> FALSE]
    /\ handler' = IdleHandler
    /\ booted' = FALSE
    /\ UNCHANGED <<user_data, claim_history, calls, world, USER_LOCKS>>

NextRestart ==
    \/ Next
    \/ shutdown_begin
    \/ shutdown_end
    \/ restart
SpecRestart == InitRestart /\ [][NextRestart]_vars

(***************************************************************************)
(* The per-user locks.  Between two suspensions a coroutine runs alone.    *)
(* Every access to a user's files goes through one of four functions, each *)
(* of the form "async with await get_user_lock(user_id): <file access>".   *)
(* Here a coroutine calls them in any order, always with its own user's    *)
(* id, as the handlers and the loop do; its pc is the function it is       *)
(* inside, "acquire" when it is suspended in Lock.acquire(), or the await  *)
(* it is suspended at.                                                     *)
(***************************************************************************)
IoFunctions == {"load_user_data", "save_user_data", "load_claim_history", "save_claim_history"}
CoUser(c) == IF c = HandlerId THEN handler.user ELSE tasks[c].user
CoPc(c) == IF c = HandlerId THEN handler.pc ELSE tasks[c].pc
\* The coroutines that are not suspended.
Running == {c \in Coroutines : CoPc(c) \in IoFunctions}
Moved(c, pc) ==
    IF c = HandlerId
    THEN handler' = [handler EXCEPT !.pc = pc] /\ UNCHANGED tasks
    ELSE tasks' = [tasks EXCEPT ![c].pc = pc] /\ UNCHANGED handler

\* After a boot that restarted the loop of each of the two users: both loops are
\* suspended at an await.
InitLocks ==
    /\ world = World(Users, MaxCallsLocks, [u \in Users |-> 0], MaxHistLocks)
    /\ user_data = [u \in Users |-> UserData("ey1", TRUE)]
    /\ claim_history = [u \in Users |-> <<>>]
    /\ AUTO_CLAIM_TASKS = [u \in Users |-> IF u = UserOrder[1] THEN 1 ELSE 2]
    /\ LAST_LONG_WAIT_NOTIFICATION = [u \in Users |-> FALSE]
    /\ tasks = [t \in TaskIds |->
                   [FreeTask EXCEPT !.st = "live", !.user = UserOrder[t], !.pc = "await"]]
    /\ handler = IdleHandler
    /\ calls = 0
    /\ booted = TRUE
    /\ USER_LOCKS = [u \in Users |-> Unlocked]

\* bot.py 69-72 with 76, 88, 97, 109: the coroutine is resumed and calls f for its
\* user; get_user_lock returns the lock under that user's key, and "async with"
\* acquires it: a free lock is taken without suspending, a held one suspends
\* the coroutine until it is released.
IoEnter(c, f) ==
    /\ Running = {}
    /\ CoPc(c) \in {"await", "typing", "reply", "acquire"}
    /\ LET u == CoUser(c)
       IN  IF USER_LOCKS[u] = Unlocked
           THEN USER_LOCKS' = [USER_LOCKS EXCEPT ![u] = c] /\ Moved(c, f)
           ELSE UNCHANGED USER_LOCKS /\ Moved(c, "acquire")
    /\ UNCHANGED <<user_data, claim_history, AUTO_CLAIM_TASKS, LAST_LONG_WAIT_NOTIFICATION,
                   calls, booted, world>>

\* The file access of the function c is inside, and where c suspends next.
IoAccess(c, data, entry) ==
    LET u == CoUser(c)
    IN  /\ user_data' = IF CoPc(c) = "save_user_data"
                         THEN [user_data EXCEPT ![u] = data] ELSE user_data
        /\ claim_history' =
              IF CoPc(c) = "save_claim_history" /\ Len(claim_history[u]) < world.hist
              THEN [claim_history EXCEPT ![u] = Append(@, entry)] ELSE claim_history
        /\ Moved(c, IF c = HandlerId THEN "reply" ELSE "await")

\* A function that awaits inside the lock, and returns without releasing it.
IoLeave_awaiting(c, data, entry) ==
    /\ CoPc(c) \in IoFunctions
    /\ IoAccess(c, data, entry)
    /\ UNCHANGED <<AUTO_CLAIM_TASKS, LAST_LONG_WAIT_NOTIFICATION, calls, booted, world, USER_LOCKS>>

\* bot.py 77-84, 89-93, 98-105, 110-114: the body, which does not await, and the
\* end of "async with", which releases the lock; the caller runs on to its next
\* await.
IoLeave(c, data, entry) ==
    /\ CoPc(c) \in IoFunctions
    /\ IoAccess(c, data, entry)
    /\ USER_LOCKS' = [USER_LOCKS EXCEPT ![CoUser(c)] = Unlocked]
    /\ UNCHANGED <<AUTO_CLAIM_TASKS, LAST_LONG_WAIT_NOTIFICATION, calls, booted, world>>

\* The records a caller saves: the record with the flag set or cleared, or with
\* a new token.
Saves(u) ==
    {[user_data[u] EXCEPT !.auto_claim_active = b] : b \in BOOLEAN}
        \cup {with_token(user_data[u], tok) : tok \in Tokens}

NextLocks ==
    \/ \E op \in Ops, u \in Users : \E a \in Args(op) : Dispatch(op, u, a)
    \/ \E c \in Coroutines, f \in IoFunctions : IoEnter(c, f)
    \/ \E c \in Running : \E data \in Saves(CoUser(c)), entry \in StoredEntries :
            IoLeave(c, data, entry)
    \/ Return
SpecLocks == InitLocks /\ [][NextLocks]_vars

(***************************************************************************)
(* Properties.                                                             *)
(***************************************************************************)
Max(a, b) == IF a >= b THEN a ELSE b
Zero(claimed) == \A x \in Tiers : claimed[x] = 0
\* The loops of u that have not terminated, after the step.
LiveLoopsNext(u) ==
    {t \in TaskIds : tasks'[t].st \in {"live", "cancelling"} /\ tasks'[t].user = u}
\* The step appends one entry to the history of u.
Appends(u) == Len(claim_history'[u]) = Len(claim_history[u]) + 1
Appended(u) == claim_history'[u][Len(claim_history'[u])]
\* The step is one the loop task t takes by itself.
LoopStep(t) == tasks[t].st = "live" /\ tasks'[t] # tasks[t] /\ tasks'[t].st # "cancelling"
\* The rewards service answered "claimed": HTTP 200 with "data": true.
Reported(r) ==
    r.t = "response" /\ r.status = 200 /\ r.body.kind = "json" /\ r.body.data = DBool(TRUE)

StartIdempotent ==
    [][ (core_autoclaim_start /\ user_data[handler.user].auth_token # NoToken) =>
            LET u == handler.user
            IN  /\ Cardinality(LiveLoopsNext(u)) = 1
                /\ AUTO_CLAIM_TASKS'[u] \in LiveLoopsNext(u)
                /\ user_data'[u].auto_claim_active
                /\ (user_data[u].auto_claim_active /\ LiveLoops(u) # {}) =>
                      /\ tasks' = tasks
                      /\ AUTO_CLAIM_TASKS' = AUTO_CLAIM_TASKS
                      /\ user_data' = user_data ]_vars

\* The second of two starts answered "already active".
SecondStart ==
    /\ calls = 2 /\ At("start", "reply") /\ handler.reply = "already_active"
    /\ Cardinality(LiveLoops(handler.user)) = 1

Check401Stops ==
    [][ \A t \in TaskIds :
          (LoopStep(t) /\ tasks[t].pc = "auth_send") =>
              /\ tasks[t].notes = 0 /\ tasks[t].submits = 0
              /\ tasks'[t].st = "finished"
              /\ ~user_data'[tasks[t].user].auto_claim_active
              /\ AUTO_CLAIM_TASKS'[tasks[t].user] = NoTask ]_vars

\* C5: the boot-time restart, which finds the registry empty, leaves exactly one
\* live loop, registered, for each user whose persisted flag is true and none for
\* a user whose flag is false or who has no record.
ReconcileSpawns ==
    [][ post_init =>
          \A u \in Users :
              IF user_data[u].auto_claim_active
              THEN /\ Cardinality(LiveLoopsNext(u)) = 1
                   /\ AUTO_CLAIM_TASKS'[u] \in LiveLoopsNext(u)
              ELSE /\ LiveLoopsNext(u) = {}
                   /\ AUTO_CLAIM_TASKS'[u] = NoTask ]_vars

\* Two users were flagged at boot and each has its own loop.
TwoRestarted ==
    /\ booted /\ calls = 0
    /\ \A u \in Users : task_running(u) /\ tasks[AUTO_CLAIM_TASKS[u]].user = u
    /\ AUTO_CLAIM_TASKS["u1"] # AUTO_CLAIM_TASKS["u2"]

\* C6: no step of a loop changes the stored credential of any user: what a loop
\* writes to the user's record changes auto_claim_active only, also when
\* set_token_command stored a new token during the iteration.
LoopKeepsCredential ==
    [][ handler' = handler =>
          \A u \in Users : user_data'[u].auth_token = user_data[u].auth_token ]_vars

\* C7: the stored history of a user only grows, by one entry at its end: every
\* step leaves it as it was or appends one entry, the earlier entries unchanged
\* and in their order; and every claim the loop or the manual claim completes
\* appends its entry.
HistoryAppendOnly ==
    [][ /\ \A u \in Users :
              \/ claim_history'[u] = claim_history[u]
              \/ /\ Appends(u)
                 /\ SubSeq(claim_history'[u], 1, Len(claim_history[u])) = claim_history[u]
        /\ \A t \in TaskIds :
              (LoopStep(t) /\ tasks'[t].pc \in {"claimfail_send", "success_send"}
                 /\ tasks[t].pc \in {"claim", "bal_after"}) => Appends(tasks[t].user)
        /\ (handler.op = "claim" /\ handler.pc # "reply" /\ handler'.pc = "reply"
               /\ handler'.reply \in {"claimed", "claim_failed"}) => Appends(handler.user)
      ]_vars

\* The loop and a manual claim of the same user have each appended an entry.
BothAppended ==
    /\ Len(claim_history["u1"]) = 2
    /\ At("claim", "reply") /\ handler.reply \in {"claimed", "claim_failed"}
    /\ \E t \in TaskIds : tasks[t].user = "u1" /\ tasks[t].pc \in {"claimfail_send", "success_send"}

\* C8: the claimed amount an entry of a successful claim records for a tier is
\* max(after - before, 0) of the two snapshots, so no entry holds a negative
\* claimed amount.
ClaimedIsClampedDelta ==
    [][ /\ \A t \in TaskIds :
              (LoopStep(t) /\ tasks[t].pc = "bal_after" /\ Appends(tasks[t].user)) =>
                  \A x \in Tiers :
                      Appended(tasks[t].user).claimed[x] =
                          Max(Appended(tasks[t].user).total_after[x] - tasks[t].before[x], 0)
        /\ (At("claim", "bal_after") /\ Appends(handler.user)) =>
              \A x \in Tiers :
                  Appended(handler.user).claimed[x] =
                      Max(Appended(handler.user).total_after[x] - handler.before[x], 0)
      ]_vars

\* C9: an entry is recorded with success = true exactly when submitClaim
\* reported success: a claim that did not succeed is recorded at once with
\* success = false and three zero amounts; one that succeeded is recorded after
\* the second snapshot with success = true, and with three zero amounts when the
\* balances did not change.
SuccessAsReported ==
    [][ /\ \A t \in TaskIds : \A r \in ClaimResponses :
              LoopClaim(t, r) =>
                  IF Reported(r)
                  THEN tasks'[t].pc = "success_typing" /\ UNCHANGED claim_history
                  ELSE /\ Appends(tasks[t].user)
                       /\ ~Appended(tasks[t].user).success
                       /\ Zero(Appended(tasks[t].user).claimed)
        /\ \A r \in ClaimResponses :
              claim_submitted(r) =>
                  IF Reported(r)
                  THEN handler'.pc = "success_typing" /\ UNCHANGED claim_history
                  ELSE /\ Appends(handler.user)
                       /\ ~Appended(handler.user).success
                       /\ Zero(Appended(handler.user).claimed)
        /\ \A t \in TaskIds :
              (LoopStep(t) /\ tasks[t].pc = "bal_after") =>
                  /\ Appends(tasks[t].user)
                  /\ Appended(tasks[t].user).success
                  /\ Appended(tasks[t].user).total_after = tasks[t].before
                        => Zero(Appended(tasks[t].user).claimed)
        /\ (At("claim", "bal_after") /\ handler' # handler) =>
              /\ Appends(handler.user)
              /\ Appended(handler.user).success
              /\ Appended(handler.user).total_after = handler.before
                    => Zero(Appended(handler.user).claimed)
      ]_vars

\* A successful claim that changed no balance is in the history.
SuccessWithoutGain ==
    \E u \in Users : \E i \in 1..Len(claim_history[u]) :
        claim_history[u][i].success /\ Zero(claim_history[u][i].claimed)

StatusChangesNothing ==
    [][ (handler' # handler /\ (handler.op = "status" \/ handler'.op = "status")) =>
            UNCHANGED <<user_data, AUTO_CLAIM_TASKS, LAST_LONG_WAIT_NOTIFICATION,
                        tasks, claim_history>> ]_vars

\* status answered Desynced and the mismatch it found is still there.
MismatchReported ==
    /\ At("status", "reply") /\ handler.reply = "Desynced"
    /\ user_data[handler.user].auto_claim_active
    /\ AUTO_CLAIM_TASKS[handler.user] # NoTask /\ done(AUTO_CLAIM_TASKS[handler.user])

\* C12: start by a user without a stored credential fails and has no effect:
\* it answers that no token is set, creates no task, stores no handle and leaves
\* the user's record, with its flag, as it was.
StartNeedsCredential ==
    [][ (core_autoclaim_start /\ user_data[handler.user].auth_token = NoToken) =>
            /\ handler'.reply = "no_token"
            /\ UNCHANGED <<tasks, AUTO_CLAIM_TASKS, user_data>>
            /\ ~user_data'[handler.user].auto_claim_active ]_vars

\* A start was refused for want of a credential.
StartRefused ==
    /\ At("start", "reply") /\ handler.reply = "no_token"
    /\ LiveLoops(handler.user) = {} /\ AUTO_CLAIM_TASKS[handler.user] = NoTask

\* C13: stop, when the flag is false and the user has no live loop, is a no-op:
\* it answers that the service was not active and leaves the record, the
\* registry, the last-notification times and the tasks as they were.
StopInactiveNoOp ==
    [][ (core_autoclaim_stop /\ ~user_data[handler.user].auto_claim_active
            /\ LiveLoops(handler.user) = {}) =>
            /\ handler'.reply = "not_active"
            /\ UNCHANGED <<user_data, AUTO_CLAIM_TASKS, LAST_LONG_WAIT_NOTIFICATION,
                           tasks>> ]_vars

\* A stop found nothing to stop, for a user who has a credential.
StopFoundNothing ==
    /\ At("stop", "reply") /\ handler.reply = "not_active"
    /\ user_data[handler.user].auth_token # NoToken

\* The loop t has had, in its current iteration, this answer from this call.
Has(t, call, answer) == <<call, answer>> \in tasks[t].seen
Had(t, call, answer) == <<call, answer>> \in tasks'[t].seen

\* C14: in an iteration whose checkClaimable answered isClaimable = false the
\* loop submits no claim and appends no history entry: the check leads to the
\* claim path only when it answered isClaimable = true; after an answer of false
\* the loop goes to a notification or straight to the sleep that ends the
\* iteration, what it does until then changes no history and submits nothing,
\* and after the sleep its next request is checkClaimable again.
NotClaimableWaits ==
    [][ \A t \in TaskIds :
          /\ (LoopStep(t) /\ tasks[t].pc = "check") =>
                /\ tasks'[t].pc = "bal_before" <=> Had(t, "check", "claimable")
                /\ Had(t, "check", "waiting") =>
                      tasks'[t].pc \in {"wait_send", "unknown_send", "exc_send"}
                /\ UNCHANGED claim_history
          /\ (LoopStep(t) /\ Has(t, "check", "waiting")) =>
                /\ tasks'[t].pc \in {"exc_send", "sleep"} \/ tasks'[t].st = "finished"
                /\ tasks'[t].submits = 0 /\ tasks[t].submits = 0
                /\ UNCHANGED claim_history
          /\ (LoopStep(t) /\ tasks[t].pc = "sleep") =>
                tasks'[t].pc = "typing" \/ tasks'[t].st = "finished"
          /\ (LoopStep(t) /\ tasks[t].pc = "typing") =>
                tasks'[t].pc \in {"check", "cfg_send", "exc_send"} ]_vars

\* A loop sleeps 25 to 35 minutes after a check that was not claimable, having
\* submitted nothing, and the user's history is empty.
WaitingAsleep ==
    \E t \in TaskIds :
        /\ tasks[t].st = "live" /\ tasks[t].pc = "sleep" /\ tasks[t].sleep = "25-35m"
        /\ tasks[t].submits = 0 /\ claim_history[tasks[t].user] = <<>>

\* submitClaim answered HTTP 400 with the message TOKEN_CLAIM_TOO_EARLY.
TooEarlyResponse == Response(400, Json(DAbsent, TooEarly))

\* C15: when submitClaim answers HTTP 400 TOKEN_CLAIM_TOO_EARLY the loop stays
\* active and takes the normal wait: the answer appends exactly one history
\* entry, with success = false, and leads to the "claim failed" message; the
\* messages of that iteration, once delivered, lead to the sleep of 5..10
\* minutes; and no step of the loop in that iteration changes the flag, the
\* registry or the history again, or ends the loop.
TooEarlyWaits ==
    [][ \A t \in TaskIds :
          /\ (LoopStep(t) /\ tasks[t].pc = "claim" /\ LoopClaim(t, TooEarlyResponse)) =>
                /\ Appends(tasks[t].user) /\ ~Appended(tasks[t].user).success
                /\ tasks'[t].pc = "claimfail_send" /\ Had(t, "claim", "400")
                /\ UNCHANGED <<user_data, AUTO_CLAIM_TASKS>>
          /\ (LoopStep(t) /\ Has(t, "claim", "400")) =>
                /\ UNCHANGED <<user_data, AUTO_CLAIM_TASKS, claim_history>>
                /\ tasks'[t].st = "live" \/ tasks'[t].exit = "error"
                /\ tasks[t].pc \in {"claimfail_send", "cycle_send", "exc_send"}
                /\ (LoopNotified(t) /\ tasks[t].pc = "claimfail_send") =>
                      tasks'[t].pc = "cycle_send" /\ tasks'[t].sleep = "5-10m"
                /\ (LoopNotified(t) /\ tasks[t].pc = "cycle_send") =>
                      tasks'[t].pc = "sleep" /\ tasks'[t].sleep = "5-10m" ]_vars

\* The loop is about to announce the next check after a claim that came too
\* early: the user is still active and registered, and the entry is recorded.
TooEarlyRecorded ==
    \E t \in TaskIds :
        /\ tasks[t].st = "live" /\ tasks[t].pc = "cycle_send" /\ Has(t, "claim", "400")
        /\ tasks[t].sleep = "5-10m"
        /\ user_data[tasks[t].user].auto_claim_active
        /\ AUTO_CLAIM_TASKS[tasks[t].user] = t
        /\ Len(claim_history[tasks[t].user]) = 1
        /\ ~claim_history[tasks[t].user][1].success

\* checkClaimable answered "not claimable" with a nextFrame that is rem
\* milliseconds after the loop's clock.
Waiting(rem) == Response(200, Json(DElig(FALSE, "set", rem), Absent))

\* C16: when checkClaimable reports not claimable with a known nextFrame less
\* than 15 minutes ahead, or already past, the loop sleeps max(remaining, 0) plus
\* 10..45 seconds and always sends the wait notification.
ShortWaitNotifies ==
    [][ \A t \in TaskIds :
          (LoopStep(t) /\ tasks[t].pc = "check") =>
              \A rem \in {x \in Remaining : x < QUARTER_MS}, e \in Elapsed :
                  LoopCheck(t, Waiting(rem), e) =>
                      tasks'[t].pc = "wait_send" /\ tasks'[t].sleep = "rem+10-45s" ]_vars

\* checkClaimable answered "not claimable" with nextFrame = 0.
UnknownWait == Response(200, Json(DElig(FALSE, "zero", 0), Absent))

\* C17: the sleep after a not-claimable check has the range of its bucket: 25..35
\* minutes when more than 1 hour remains, 5..10 minutes when more than 15 minutes
\* and at most 1 hour remain, 5..10 minutes when nextFrame is 0; the choice is the
\* same whatever time has passed since the last notification, and the
\* notification that may follow does not change it.
BucketSleep ==
    [][ \A t \in TaskIds :
          /\ (LoopStep(t) /\ tasks[t].pc = "check") =>
                \A e \in Elapsed :
                    /\ \A rem \in {x \in Remaining : x > QUARTER_MS} :
                          LoopCheck(t, Waiting(rem), e) =>
                              /\ tasks'[t].pc \in {"wait_send", "sleep"}
                              /\ tasks'[t].sleep = IF rem > HOUR_MS THEN "25-35m" ELSE "5-10m"
                    /\ LoopCheck(t, UnknownWait, e) =>
                          tasks'[t].pc = "unknown_send" /\ tasks'[t].sleep = "5-10m"
          /\ (LoopNotified(t) /\ tasks[t].pc \in {"wait_send", "unknown_send"}) =>
                tasks'[t].pc = "sleep" /\ tasks'[t].sleep = tasks[t].sleep ]_vars

\* A loop sleeps 25..35 minutes after the notification of a long wait.
LongWaitAsleep ==
    \E t \in TaskIds :
        /\ tasks[t].st = "live" /\ tasks[t].pc = "sleep" /\ tasks[t].sleep = "25-35m"
        /\ tasks[t].notes = 1 /\ LAST_LONG_WAIT_NOTIFICATION[tasks[t].user]

\* A wait notification was delivered to u in this run.
WaitNotified(u) == \E x \in TaskIds : tasks[x].user = u /\ tasks[x].waited

\* C18: wait notifications are suppressed per bucket: with more than 1 hour
\* remaining the loop sends one only if more than 2 hours have passed since the
\* last wait notification to the user, and with more than 15 minutes and at most
\* 1 hour remaining only if more than 45 minutes have passed.
WaitNotificationsSpaced ==
    [][ \A t \in TaskIds :
          (LoopStep(t) /\ tasks[t].pc = "check" /\ WaitNotified(tasks[t].user)) =>
              \A rem \in {x \in Remaining : x > QUARTER_MS}, e \in Elapsed :
                  (LoopCheck(t, Waiting(rem), e) /\ tasks'[t].pc = "wait_send") =>
                      e > (IF rem > HOUR_MS THEN LONG_QUIET ELSE SHORT_QUIET) ]_vars

\* The range of the sleep the code chooses for each remaining time.
SleepOf(rem) ==
    IF rem > HOUR_MS THEN "25-35m"
    ELSE IF rem > QUARTER_MS THEN "5-10m"
    ELSE IF rem > 0 THEN "rem+10-45s"
    ELSE "30-90s"

\* C19: the boundaries are deterministic: a remaining time of exactly 3,600,000
\* ms gets the sleep of 5..10 minutes, one of exactly 900,000 ms gets the
\* remaining time plus 10..45 seconds with a notification, and every remaining
\* time gets one range, the same whatever time has passed since the last
\* notification.
BoundaryBuckets ==
    [][ \A t \in TaskIds :
          (LoopStep(t) /\ tasks[t].pc = "check") =>
              \A rem \in Remaining, e \in Elapsed :
                  LoopCheck(t, Waiting(rem), e) =>
                      /\ tasks'[t].sleep = SleepOf(rem)
                      /\ rem = HOUR_MS => tasks'[t].sleep = "5-10m"
                      /\ rem = QUARTER_MS =>
                            tasks'[t].sleep = "rem+10-45s" /\ tasks'[t].pc = "wait_send" ]_vars

\* Exactly one hour remained and the loop is about to notify: its sleep will be
\* the 5..10 minutes of the middle bucket.
HourExactly ==
    \E t \in TaskIds :
        /\ tasks[t].st = "live" /\ tasks[t].pc = "wait_send"
        /\ Has(t, "remaining", HOUR_MS) /\ tasks[t].sleep = "5-10m"

\* A request of the iteration of t was answered HTTP 429.
RateLimited(t) ==
    Has(t, "check", "429") \/ Has(t, "before", "429") \/ Has(t, "claim", "429")

\* C20: whenever checkClaimable, getTokenBalances or submitClaim answered HTTP
\* 429 in an iteration, the sleep that ends the iteration is of 45..75 minutes
\* and the loop stays active: stated for the iterations whose notifications are
\* all delivered.
RateLimitBackoff ==
    [][ \A t \in TaskIds :
          (LoopNotified(t) /\ tasks[t].pc # "exc_send" /\ RateLimited(t)) =>
              /\ tasks'[t].st = "live"
              /\ user_data'[tasks[t].user].auto_claim_active
              /\ tasks'[t].pc \in {"sleep", "nobalance_sleep"} =>
                    tasks'[t].sleep = "45-75m" ]_vars

\* C21: an iteration whose checkClaimable answered HTTP 429 sends exactly one
\* notification, the notice of the extended wait: when its last message has been
\* delivered and it goes to sleep, it has sent one message.
RateLimitOneNotice ==
    [][ \A t \in TaskIds :
          (LoopNotified(t) /\ Has(t, "check", "429") /\ tasks[t].pc # "exc_send"
              /\ tasks'[t].pc = "sleep") =>
                  tasks'[t].notes = 1 ]_vars

\* The call of the iteration of t failed without an HTTP error status.
Transient(t, call) == \E f \in Faults : Has(t, call, f)

\* C22: when checkClaimable fails by a timeout, a connection failure or a body
\* that is not JSON, the sleep that ends the iteration is of 2..5 minutes: stated
\* for the iterations whose notification is delivered.
TransientBackoff ==
    [][ \A t \in TaskIds :
          (LoopNotified(t) /\ tasks[t].pc = "failed_send" /\ Transient(t, "check")) =>
              tasks'[t].pc = "sleep" /\ tasks'[t].sleep = "2-5m" ]_vars

\* A request of the iteration of t failed in a way the loop is to survive: a
\* timeout, a connection failure, a body that is not JSON, HTTP 429 or another
\* error that is not HTTP 401.
Recoverable(t) ==
    \E call \in {"check", "before", "claim", "after"} :
        \E a \in {"429", "400", "error"} \cup Faults : Has(t, call, a)

\* C23: no recoverable remote failure stops the loop or changes its state: no
\* step the loop takes in an iteration in which a request failed that way ends
\* the loop, removes its handle from the registry, or changes the flag or the
\* credential.
RecoverableKeepsLoop ==
    [][ \A t \in TaskIds :
          (LoopStep(t) /\ Recoverable(t)) =>
              /\ tasks'[t].st = "live"
              /\ AUTO_CLAIM_TASKS'[tasks[t].user] = t
              /\ user_data'[tasks[t].user].auto_claim_active
              /\ UNCHANGED user_data ]_vars

\* A request of the iteration of t was answered HTTP 401.
Unauthorized(t) == \E call \in {"check", "before", "claim", "after"} : Has(t, call, "401")

\* C24: HTTP 401 on any request of the loop is fatal: in an iteration in which a
\* request was answered 401, a delivered notification never leads to the sleep
\* before another iteration, and the one that ends the loop leaves the flag
\* false.
UnauthorizedIsFatal ==
    [][ \A t \in TaskIds :
          (LoopStep(t) /\ tasks[t].pc \in PlainSends \cup FatalSends /\ tasks[t].pc # "exc_send"
              /\ Unauthorized(t)
              /\ (LoopNotified(t) \/ LoopFatal(t))) =>
                  /\ tasks'[t].pc \notin {"sleep", "nobalance_sleep", "cycle_send"}
                  /\ tasks'[t].st = "finished" => ~user_data'[tasks[t].user].auto_claim_active ]_vars

\* The ways the loop stops itself.
FatalExits == {"notoken", "config", "auth_check", "auth_claim"}

\* C25: every fatal stop of the loop sends exactly one notification in the
\* iteration that stops it: the message whose delivery ends the loop is the
\* first one of its iteration.
FatalOneNotice ==
    [][ \A t \in TaskIds :
          (LoopStep(t) /\ tasks[t].pc \in FatalSends /\ tasks'[t].exit \in FatalExits) =>
              tasks[t].notes = 0 ]_vars

\* C26: history retrieval shows at most 10 entries, the most recently appended
\* ones, the most recent first, and no step of the handler changes the stored
\* history, whatever its length.
HistoryPage ==
    [][ /\ core_history_action =>
              LET user_history == claim_history[handler.user]
                  shown == handler'.shown
              IN  /\ Len(shown) <= 10
                  /\ Len(shown) = IF Len(user_history) < 10 THEN Len(user_history) ELSE 10
                  /\ \A i \in 1..Len(shown) : shown[i] = user_history[Len(user_history) + 1 - i]
        /\ (handler.op = "history" \/ handler'.op = "history") => UNCHANGED claim_history ]_vars

\* A history of 11 entries whose oldest and newest differ was displayed: the
\* oldest is left out and the newest comes first.
LongHistoryShown ==
    /\ At("history", "reply")
    /\ Len(claim_history[handler.user]) = 11
    /\ claim_history[handler.user][1] # claim_history[handler.user][2]
    /\ claim_history[handler.user][11] # claim_history[handler.user][10]
    /\ Len(handler.shown) = 10
    /\ handler.shown[1] = claim_history[handler.user][11]
    /\ handler.shown[10] = claim_history[handler.user][2]

\* C27: once the boot-time restart has run, in every state where no start or
\* stop call is in progress, a user whose persisted flag is true has a live
\* loop: no loop ends, by a fatal condition or by an error that escapes it, and
\* leaves the flag true.
ActiveHasLoop ==
    (booted /\ handler.op \notin {"start", "stop"}) =>
        \A u \in Users : user_data[u].auto_claim_active => LiveLoops(u) # {}

\* C28: a manual claim never changes the user's flag, the user's credential or
\* the task registry, whatever the rewards service answers: no step of the claim
\* handler, from its dispatch to its return, changes the user records, the
\* registry or a task, and a submitClaim answered HTTP 401 only yields the
\* "claim failed" message.
ManualClaimFrame ==
    [][ /\ (handler' # handler /\ (handler.op = "claim" \/ handler'.op = "claim")) =>
              UNCHANGED <<user_data, AUTO_CLAIM_TASKS, tasks>>
        /\ (At("claim", "claim") /\ handler'.code = 401) =>
              handler'.reply = "claim_failed" /\ handler'.pc = "reply" ]_vars

\* A manual claim was answered HTTP 401 while the user's loop is live: the user
\* is still active, registered, and holds the credential.
ManualClaimRejected ==
    /\ At("claim", "reply") /\ handler.code = 401
    /\ user_data[handler.user].auto_claim_active
    /\ user_data[handler.user].auth_token # NoToken
    /\ AUTO_CLAIM_TASKS[handler.user] \in LiveLoops(handler.user)

\* C29: cancellation interrupts the sleep: the next thing a loop does after stop
\* called cancel() is to end, where it is suspended and with no effect on the
\* stores; stop returns only when the loop has ended; and a loop that has ended
\* does nothing more: no request, no history entry, no notification.
CancelInterruptsSleep ==
    [][ /\ \A t \in TaskIds :
              /\ (tasks[t].st = "cancelling" /\ tasks'[t] # tasks[t]) =>
                    /\ tasks'[t].st = "cancelled" /\ tasks'[t].pc = tasks[t].pc
                    /\ UNCHANGED <<claim_history, user_data, LAST_LONG_WAIT_NOTIFICATION>>
              /\ done(t) => tasks'[t] = tasks[t]
        /\ (handler'.op = "stop" /\ handler'.pc = "reply" /\ handler'.task # NoTask) =>
              tasks'[handler'.task].st = "cancelled" ]_vars

\* stop has returned after cancelling a loop that was asleep.
StoppedAsleep ==
    /\ At("stop", "reply") /\ handler.task # NoTask
    /\ tasks[handler.task].st = "cancelled" /\ tasks[handler.task].pc = "sleep"

\* The suspensions at which a request to the rewards service is in flight.
RemoteCalls == {"check", "bal_before", "claim", "bal_after"}

\* C30: when stop is issued while the loop has a request in flight, the request
\* completes before the loop ends: a loop is never ended by the cancellation at
\* a request, so a submitClaim that was sent always has its outcome appended.
InFlightCompletes ==
    [][ \A t \in TaskIds :
          (tasks[t].st = "cancelling" /\ tasks'[t].st = "cancelled") =>
              tasks[t].pc \notin RemoteCalls ]_vars

\* The raw outcomes that are transport failures, and the responses with an error
\* status.
TransportFailures == {Timeout, ConnectError}
ErrorResponses(rs) == {r \in rs : r.t = "response" /\ r.status >= 400}

\* C31: for checkClaimable and for submitClaim, a timeout or a connection error
\* gives the caller an absent payload and an absent status code, and a response
\* with an error status gives an absent payload unless its body is JSON: stated
\* of what the loop receives when its request ends that way.
ClientFailureShape ==
    [][ \A t \in TaskIds :
          /\ (LoopStep(t) /\ tasks[t].pc = "check") =>
                \A e \in Elapsed :
                    /\ \A r \in TransportFailures :
                          LoopCheck(t, r, e) =>
                              /\ Falsy(api_check_claimable(r)[1])
                              /\ api_check_claimable(r)[2] = NoStatus
                    /\ \A r \in ErrorResponses(CheckResponses) :
                          (LoopCheck(t, r, e) /\ r.body.kind # "json") =>
                              Falsy(api_check_claimable(r)[1])
          /\ (LoopStep(t) /\ tasks[t].pc = "claim") =>
                /\ \A r \in TransportFailures :
                      LoopClaim(t, r) =>
                          /\ ~Truthy(api_claim_airdrop(r)[1])
                          /\ api_claim_airdrop(r)[2] = NoStatus
                /\ \A r \in ErrorResponses(ClaimResponses) :
                      (LoopClaim(t, r) /\ r.body.kind # "json") =>
                          ~Truthy(api_claim_airdrop(r)[1]) ]_vars

\* The answers a request can get other than the one that lets the claim go on.
NotOk == {"401", "429", "400", "error"}

\* C32: submitClaim is called only after the balance snapshot before it
\* succeeded and, in the loop, after checkClaimable answered isClaimable = true
\* in the same iteration; when that snapshot fails nothing is submitted and
\* nothing is appended; the snapshot after the claim is taken only when the claim
\* succeeded; and the history entry is appended by the step that leads to the
\* outcome message, which itself appends nothing.
ClaimOrder ==
    [][ /\ \A t \in TaskIds :
              LoopStep(t) =>
                  /\ (tasks'[t].pc = "claim" /\ tasks[t].pc # "claim") =>
                        Has(t, "check", "claimable") /\ Has(t, "before", "ok")
                  /\ (\E a \in NotOk : Has(t, "before", a)) =>
                        /\ tasks[t].submits = 0 /\ tasks'[t].submits = 0
                        /\ UNCHANGED claim_history
                  /\ (tasks'[t].pc = "bal_after" /\ tasks[t].pc # "bal_after") =>
                        Has(t, "claim", "ok")
                  /\ (tasks'[t].pc \in {"success_send", "claimfail_send"}
                          /\ tasks[t].pc \in {"claim", "bal_after"}) =>
                        Appends(tasks[t].user)
                  /\ tasks[t].pc \in {"success_send", "claimfail_send"} =>
                        UNCHANGED claim_history
        /\ (handler' # handler /\ handler.op = "claim") =>
              /\ handler'.pc = "claim" =>
                    handler.pc = "processing" /\ handler.before \in Balances
              /\ (handler.pc = "bal_before" /\ handler'.pc # "processing") =>
                    handler'.reply = "no_balance" /\ UNCHANGED claim_history
              /\ handler'.pc = "bal_after" =>
                    handler.pc = "success_typing" /\ handler.code = 200
              /\ handler'.reply \in {"claimed", "claim_failed"} =>
                    Appends(handler.user)
              /\ handler.pc = "reply" => UNCHANGED claim_history ]_vars

\* The loop is about to report a successful claim: the check said claimable, both
\* snapshots and the claim were answered, and the entry is in the history.
ClaimedInOrder ==
    \E t \in TaskIds :
        /\ tasks[t].st = "live" /\ tasks[t].pc = "success_send"
        /\ Has(t, "check", "claimable") /\ Has(t, "before", "ok")
        /\ Has(t, "claim", "ok") /\ Has(t, "after", "ok")
        /\ tasks[t].submits = 1
        /\ Len(claim_history[tasks[t].user]) = 1
        /\ claim_history[tasks[t].user][1].success

\* submitClaim of the iteration of t has been answered.
ClaimAnswered(t) == \E a \in NotOk \cup Faults \cup {"ok"} : Has(t, "claim", a)

\* C33: each iteration submits at most one claim: the loop submits only in an
\* iteration that has not submitted yet and whose checkClaimable answered
\* isClaimable = true, and once submitClaim has been answered, whatever the
\* answer, the loop does not submit again before it has slept.
OneClaimPerIteration ==
    [][ \A t \in TaskIds :
          LoopStep(t) =>
              /\ tasks'[t].submits <= 1
              /\ tasks'[t].submits > tasks[t].submits =>
                    /\ tasks[t].submits = 0 /\ tasks'[t].pc = "claim"
                    /\ Has(t, "check", "claimable") /\ ~ClaimAnswered(t)
              /\ ClaimAnswered(t) =>
                    \/ tasks'[t].pc # "claim" /\ tasks'[t].submits = tasks[t].submits
                    \/ tasks'[t].st = "finished"
              /\ tasks[t].pc \in {"sleep", "nobalance_sleep"} =>
                    tasks'[t].pc = "typing" \/ tasks'[t].st = "finished" ]_vars

\* A submitClaim timed out and the loop is ending the cycle: it submitted once.
TimedOutOnce ==
    \E t \in TaskIds :
        /\ tasks[t].st = "live" /\ tasks[t].pc = "cycle_send"
        /\ Has(t, "claim", "timeout") /\ tasks[t].submits = 1

\* C34: an iteration that finds no credential when it begins makes no remote
\* call, and the loop's next step saves the flag as false, ends the loop and
\* removes the user's handle from the registry.
CredentialLostStops ==
    [][ \A t \in TaskIds :
          (LoopStep(t) /\ tasks[t].pc = "cfg_send") =>
              /\ tasks[t].seen = {} /\ tasks[t].submits = 0
              /\ tasks'[t].st = "finished"
              /\ ~user_data'[tasks[t].user].auto_claim_active
              /\ AUTO_CLAIM_TASKS'[tasks[t].user] = NoTask ]_vars

\* The ways a loop terminates on its own: a fatal condition, or the flag read
\* as false.
SelfExits == FatalExits \cup {"flag"}

\* C35: the registry never holds the handle of a loop that has terminated on
\* its own, whether by a fatal condition (a missing credential found before the
\* first iteration included) or by reading the flag as false.
SelfExitDeregisters ==
    \A t \in TaskIds :
        (tasks[t].st = "finished" /\ tasks[t].exit \in SelfExits) =>
            AUTO_CLAIM_TASKS[tasks[t].user] # t

\* C36: a loop calls checkClaimable while the persisted flag of its user is
\* false only if the flag was still true when the iteration began, that is, was
\* written during the iteration's send_chat_action: every iteration, the one
\* entered after the sleep that follows a failed balance snapshot included,
\* begins with a test of the persisted flag.
CheckRereadsFlag ==
    [][ \A t \in TaskIds :
          (LoopStep(t) /\ tasks[t].pc = "typing" /\ tasks'[t].pc = "check") =>
              \/ user_data[tasks[t].user].auto_claim_active
              \/ tasks[t].entered ]_vars
\* The step is one of a handler call of u, or one of a loop task of u.
HandlerStepOf(u) == handler' # handler /\ (handler.user = u \/ handler'.user = u)
LoopStepOf(u) ==
    handler' = handler /\ \E t \in TaskIds : tasks[t].user = u /\ tasks'[t] # tasks[t]
\* The step changes something that belongs to v: the record, the history, the
\* registry entry, the notification time or a task.
Touched(v) ==
    \/ user_data'[v] # user_data[v]
    \/ claim_history'[v] # claim_history[v]
    \/ AUTO_CLAIM_TASKS'[v] # AUTO_CLAIM_TASKS[v]
    \/ LAST_LONG_WAIT_NOTIFICATION'[v] # LAST_LONG_WAIT_NOTIFICATION[v]
    \/ \E t \in TaskIds : tasks[t].user = v /\ tasks'[t] # tasks[t]

RestartRoundTrip ==
    [][ /\ (handler.op = "shutdown" \/ handler'.op = "shutdown") => user_data' = user_data
        /\ shutdown_end =>
              /\ \A t \in Registered : tasks'[t].st \in {"finished", "cancelled"}
              /\ \A u \in Users : AUTO_CLAIM_TASKS'[u] = NoTask /\ LiveLoopsNext(u) = {}
        /\ restart => user_data' = user_data /\ ~booted'
        /\ post_init =>
              \A u \in Users :
                  /\ user_data[u].auto_claim_active <=> LiveLoopsNext(u) # {}
                  /\ Cardinality(LiveLoopsNext(u)) <= 1
                  /\ LiveLoopsNext(u) \subseteq {AUTO_CLAIM_TASKS'[u]} ]_vars

\* After a shutdown and a second boot: the loop that appended the history entry
\* is gone with its process, the user it belonged to has a new loop that has not
\* run yet, and the user who was not active has none.
SecondBoot ==
    /\ booted /\ calls = 0 /\ handler.op = "idle"
    /\ Len(claim_history["u1"]) = 1
    /\ user_data["u1"].auto_claim_active /\ task_running("u1")
    /\ tasks[AUTO_CLAIM_TASKS["u1"]].pc = "new"
    /\ \A t \in TaskIds : tasks[t].st # "free" => t = AUTO_CLAIM_TASKS["u1"]
    /\ user_data["u2"].auth_token # NoToken /\ ~user_data["u2"].auto_claim_active
    /\ AUTO_CLAIM_TASKS["u2"] = NoTask
\* C39: the per-user lock gives mutual exclusion and cannot block: at most one
\* coroutine is inside a load or save of a user's record or history; a coroutine
\* inside a lock is that user's own, is counted as the lock's holder and holds
\* no second lock; a coroutine suspended at a remote call, a message or a sleep
\* holds no lock; and no coroutine, a stop handler included, is ever suspended
\* waiting for a lock.
LockDiscipline ==
    /\ \A u \in Users :
          Cardinality({c \in Coroutines : CoPc(c) \in IoFunctions /\ CoUser(c) = u}) <= 1
    /\ \A c \in Coroutines :
          /\ CoPc(c) \in IoFunctions => USER_LOCKS[CoUser(c)] = c
          /\ Cardinality({u \in Users : USER_LOCKS[u] = c}) <= 1
          /\ \A u \in Users : USER_LOCKS[u] = c => CoPc(c) \in IoFunctions /\ CoUser(c) = u
          /\ CoPc(c) # "acquire"

\* A stop handler is inside save_user_data, holding its user's lock, while the
\* loop of the same user, which has saved a record before, is suspended.
StopInsideLock ==
    /\ At("stop", "save_user_data") /\ handler.user = "u1"
    /\ USER_LOCKS["u1"] = HandlerId /\ USER_LOCKS["u2"] = Unlocked
    /\ tasks[1].user = "u1" /\ tasks[1].pc = "await"
    /\ user_data["u1"].auth_token = "ey2"
\* C40: setCredential stores the token it was given and changes nothing else:
\* the step that saves it leaves the user's flag and every other record as they
\* were and comes before the profile verification is answered; no later step of
\* the handler, a failed verification included, changes a record; and a loop
\* that begins a remote call sequence reads the stored credential anew, so an
\* iteration begun after the save uses the new token.
SetCredentialStores ==
    [][ /\ (set_token_command /\ handler.arg \in Tokens) =>
              /\ user_data'[handler.user] =
                    UserData(handler.arg, user_data[handler.user].auto_claim_active)
              /\ \A v \in Users \ {handler.user} : user_data'[v] = user_data[v]
              /\ handler'.pc = "verifying"
        /\ (handler.op = "settoken" /\ handler.pc # "typing" /\ handler' # handler) =>
              user_data' = user_data
        /\ \A t \in TaskIds :
              (LoopStep(t) /\ tasks'[t].pc = "check") =>
                  tasks'[t].tok = user_data[tasks[t].user].auth_token ]_vars

\* The verification of a new token failed; the token is stored with the flag
\* still true, and the user's loop has begun its second iteration with it.
NewTokenInUse ==
    /\ At("settoken", "reply") /\ handler.reply = "unverified" /\ handler.arg = "ey2"
    /\ user_data[handler.user] = UserData("ey2", TRUE)
    /\ \E t \in LiveLoops(handler.user) :
          tasks[t].pc = "check" /\ tasks[t].tok = "ey2" /\ tasks[t].iter = 2
====
